---- MODULE Spec2Model ----
(***************************************************************************)
(* Contract-driven experiment automation: the source patchers              *)
(* (CodeGenerator, FastCodeGenerator) and the `create` orchestrator        *)
(* (ExperimentRunner.runExperiment).                                       *)
(*                                                                         *)
(* Text model.  A file is a sequence of lines and a line is a sequence of  *)
(* tokens; adjacent tokens stand for text separated as in the source       *)
(* patterns, the token WS is a run of indentation, and the empty sequence  *)
(* is the empty line.  split('\n') / join('\n') are the identity on the    *)
(* sequence of lines except where a multi-line string is pushed or         *)
(* substituted, which is modelled by SplitLines / JoinLines on a token     *)
(* stream carrying NL tokens.                                              *)
(***************************************************************************)
EXTENDS Integers, Sequences, FiniteSets, TLC

\* ------------------------------------------------------------------ bounds
MaxFileLines ==
  2

MaxRuns ==
  2

\* ------------------------------------------------------------------ tokens
WS ==
  "ws"

NL ==
  "\n"

SQ_MODULE ==
  "'../lib/statsigClient'"

DQ_MODULE ==
  "\"../lib/statsigClient\""

\* tokens whose text contains the substring `react`
ReactTokens ==
  {"'react'"}

\* a path with no file behind it (a file always has at least one line)
NoFile ==
  <<>>

\* ----------------------------------------------------------- string helpers
RECURSIVE TrimStart(_)
TrimStart(line) ==
  IF line # <<>> /\ Head(line) = WS THEN TrimStart(Tail(line)) ELSE line

RECURSIVE TrimEnd(_)
TrimEnd(line) ==
  IF line # <<>> /\ line[Len(line)] = WS
    THEN TrimEnd(SubSeq(line, 1, Len(line) - 1))
    ELSE line

\* String.prototype.trim
Trim(line) ==
  TrimEnd(TrimStart(line))

\* String.prototype.startsWith
StartsWith(line, pattern) ==
  /\ Len(pattern) <= Len(line)
  /\ SubSeq(line, 1, Len(pattern)) = pattern

\* String.prototype.includes, on one line
Includes(line, pattern) ==
  \E i \in 1..(Len(line) - Len(pattern) + 1) :
    SubSeq(line, i, i + Len(pattern) - 1) = pattern

\* String.prototype.includes, on a whole file (the pattern has no newline)
ContentIncludes(content, pattern) ==
  \E k \in 1..Len(content) : Includes(content[k], pattern)

\* Array.prototype.splice(at, 0, ...items); `at` counts the elements before
Splice(lines, at, items) ==
  SubSeq(lines, 1, at) \o items \o SubSeq(lines, at + 1, Len(lines))

\* join('\n'): one token stream with NL between the lines
RECURSIVE JoinLines(_)
JoinLines(lines) ==
  IF lines = <<>> THEN <<>>
  ELSE IF Len(lines) = 1 THEN lines[1]
  ELSE lines[1] \o <<NL>> \o JoinLines(Tail(lines))

\* split('\n'): cut a token stream at every NL; piece k lies between the
\* (k-1)-th and the k-th NL of the stream
SplitLines(stream) ==
  LET breaks == { i \in 1..Len(stream) : stream[i] = NL }
      before(i) == Cardinality({ j \in breaks : j < i })
      cut(k) == IF k = 0 THEN 0
                ELSE IF k > Cardinality(breaks) THEN Len(stream) + 1
                ELSE CHOOSE i \in breaks : before(i) = k - 1
  IN  [ k \in 1..(Cardinality(breaks) + 1) |->
          SubSeq(stream, cut(k - 1) + 1, cut(k) - 1) ]

\* ------------------------------------------------- CodeGenerator (line scan)
\* the import line both patchers insert
ImportLine ==
  <<"import", "{", "getExperiment", ",", "logExposure", "}", "from", SQ_MODULE, ";">>

\* the comment line that opens every injected snippet
SnippetMarker(experimentKey) ==
  <<WS, "//", "Experiment:", experimentKey>>

\* CodeGenerator.isTargetFunction: the declaration shapes, tried on the
\* trimmed line with startsWith
TargetPatterns(functionName) ==
  << <<"function", functionName, "(">>,
     <<"const", functionName, "=", "(">>,
     <<"const", functionName, "=", "function">>,
     <<"export", "function", functionName, "(">>,
     <<"export", "const", functionName, "=", "(">>,
     <<"export", "default", "function", functionName, "(">>,
     <<"export", "default", "const", functionName, "=", "(">> >>

isTargetFunction(line, functionName) ==
  \E k \in 1..Len(TargetPatterns(functionName)) :
    StartsWith(Trim(line), TargetPatterns(functionName)[k])

\* CodeGenerator.hasStatsigImport
hasStatsigImport(content) ==
  \/ ContentIncludes(content, <<"from", SQ_MODULE>>)
  \/ ContentIncludes(content, <<"from", DQ_MODULE>>)

\* trimmed line starts with 'import ' (the keyword followed by more text)
IsImportLine(line) ==
  /\ StartsWith(Trim(line), <<"import">>)
  /\ Len(Trim(line)) > 1

\* the inner while loop of findImportInsertIndex: first index (0-based)
\* at or after j whose line is neither an import nor blank
RECURSIVE ImportSectionEnd(_, _)
ImportSectionEnd(lines, j) ==
  IF j < Len(lines) /\ (IsImportLine(lines[j + 1]) \/ Trim(lines[j + 1]) = <<>>)
    THEN ImportSectionEnd(lines, j + 1)
    ELSE j

\* CodeGenerator.findImportInsertIndex (0-based result)
findImportInsertIndex(lines) ==
  LET firsts == { i \in 0..(Len(lines) - 1) :
                    /\ IsImportLine(lines[i + 1])
                    /\ ~Includes(Trim(lines[i + 1]), <<"from", SQ_MODULE>>) }
  IN IF firsts = {} THEN 0
     ELSE ImportSectionEnd(lines, CHOOSE i \in firsts : \A k \in firsts : i <= k)

\* CodeGenerator.generateExperimentFunction: the declaration line followed by
\* the fifteen snippet lines of the template
generateExperimentFunction(originalLine, codeChange, contract) ==
  LET key     == contract.experimentKey
      fn      == codeChange.function
      param   == codeChange.parameterUsage
      isAsync == \E t \in 1..Len(originalLine) : originalLine[t] = "async"
      call    == <<WS, "const", "experiment", "=", "await", "getExperiment", "(", key, ")", ";">>
  IN << originalLine,
        SnippetMarker(key),
        IF isAsync THEN <<WS>> ELSE call,
        IF isAsync THEN call ELSE <<WS>>,
        <<WS, "const", "variant", "=", "experiment.variant", ";">>,
        <<WS>>,
        <<WS, "//", "Log", "exposure">>,
        <<WS, "await", "logExposure", "(", key, ",", "variant", ",", "{">>,
        <<WS, "component:", fn, ",">>,
        <<WS, "parameter:", param>>,
        <<WS, "}", ")", ";">>,
        <<WS>>,
        <<WS, "//", "Use", "experiment", "parameter:", param>>,
        <<WS, "const", param, "=", "experiment.metadata?.config?.", param, "??", "false", ";">>,
        <<WS>>,
        <<WS, "//", "Original", "function", "logic", "continues">> >>

\* Error(`Function/component '<fn>' not found in file`)
NotFoundError(functionName) ==
  [message |-> "Function/component not found in file", function |-> functionName]

NoChangeError ==
  [message |-> "No changes were made to the file", function |-> ""]

ReadError ==
  [message |-> "ENOENT: no such file or directory", function |-> ""]

\* The scan over `lines` splices two lines into the array it iterates each
\* time it meets the declaration while the import is missing.  A scan that
\* ends meets each declaration line once, so `lines` never exceeds three
\* times its original length; beyond that the scan has met one declaration
\* twice and keeps meeting it: it has no exit.
ScanLimit(originalContent) ==
  3 * Len(originalContent)

\* import insertion inside the scan (lines 123-130)
SpliceImport(lines, originalContent) ==
  IF ~hasStatsigImport(originalContent)
    THEN LET at == findImportInsertIndex(lines)
         IN Splice(Splice(lines, at, <<ImportLine>>), at + 1, << <<>> >>)
    ELSE lines

\* after the loop (lines 153-157): throw when the declaration was never met
ScanEndNoThrow(st, codeChange) ==
  [kind |-> "ok", content |-> st.modifiedLines]

ScanEnd(st, codeChange) ==
  IF ~st.foundFunction
    THEN [kind |-> "throw", error |-> NotFoundError(codeChange.function)]
    ELSE [kind |-> "ok", content |-> st.modifiedLines]

\* one pass through the body of the for loop; st.i is the 1-based position
ScanStep(st, originalContent, codeChange, contract) ==
  LET line   == st.lines[st.i]
      opened == Includes(line, <<"{">>)
      closed == Includes(line, <<"}">>)
      depth  == IF st.inTargetFunction
                  THEN st.functionDepth + (IF opened THEN 1 ELSE 0)
                                        - (IF closed THEN 1 ELSE 0)
                  ELSE st.functionDepth
  IN IF isTargetFunction(line, codeChange.function)
       THEN [st EXCEPT !.lines = SpliceImport(st.lines, originalContent),
                       !.i = st.i + 1,
                       !.modifiedLines = st.modifiedLines
                          \o generateExperimentFunction(line, codeChange, contract),
                       !.inTargetFunction = TRUE,
                       !.foundFunction = TRUE]
       ELSE [st EXCEPT !.i = st.i + 1,
                       !.modifiedLines = Append(st.modifiedLines, line),
                       !.functionDepth = depth,
                       !.inTargetFunction = st.inTargetFunction /\ depth # 0]

\* the for loop of generateModifiedCode
RECURSIVE ScanLoop(_, _, _, _)
ScanLoop(st, originalContent, codeChange, contract) ==
  CASE Len(st.lines) > ScanLimit(originalContent) -> [kind |-> "diverged"]
    [] st.i > Len(st.lines) -> ScanEnd(st, codeChange)
    [] OTHER -> ScanLoop(ScanStep(st, originalContent, codeChange, contract),
                         originalContent, codeChange, contract)

\* CodeGenerator.generateModifiedCode
generateModifiedCode(originalContent, codeChange, contract) ==
  ScanLoop([lines |-> originalContent, i |-> 1, modifiedLines |-> <<>>,
            inTargetFunction |-> FALSE, functionDepth |-> 0,
            foundFunction |-> FALSE],
           originalContent, codeChange, contract)

\* CodeGenerator.applyCodeChange on file system fsv: the new file system and
\* the CodeModificationResult, or no return at all when the scan has no exit
ScanApplyCodeChange(fsv, codeChange, contract) ==
  LET file == codeChange.file
      fail(e) == [returned |-> TRUE, fs |-> fsv,
                  result |-> [success |-> FALSE, file |-> file,
                              changes |-> <<>>, errors |-> <<e>>]]
  IN IF fsv[file] = NoFile THEN fail(ReadError)
     ELSE LET g == generateModifiedCode(fsv[file], codeChange, contract)
          IN CASE g.kind = "diverged" ->
                    [returned |-> FALSE, fs |-> fsv, result |-> <<>>]
               [] g.kind = "throw" -> fail(g.error)
               [] g.kind = "ok" /\ g.content = fsv[file] -> fail(NoChangeError)
               [] OTHER ->
                    [returned |-> TRUE,
                     fs |-> [fsv EXCEPT ![file] = g.content],
                     result |-> [success |-> TRUE, file |-> file,
                                 changes |-> <<"Modified to include experiment check">>,
                                 errors |-> <<>>]]

\* ------------------------------------------------------- FastCodeGenerator
\* file-name tests of fastStringReplace: names containing 'ProductCard.tsx',
\* and names containing '.tsx' or '.ts'
ProductCardFiles ==
  {"ProductCard.tsx"}

TypeScriptFiles ==
  {"ProductCard.tsx", "Button.tsx"}

\* content.includes('getExperiment')
MentionsGetExperiment(content) ==
  ContentIncludes(content, <<"getExperiment">>)

\* /import.*from.*react.*;/ matches inside one line
MatchesReactImport(line) ==
  \E a, b, c, d \in 1..Len(line) :
    /\ a < b /\ b < c /\ c < d
    /\ line[a] = "import" /\ line[b] = "from"
    /\ line[c] \in ReactTokens /\ line[d] = ";"

LastSemicolon(line) ==
  CHOOSE d \in 1..Len(line) :
    /\ line[d] = ";"
    /\ \A e \in 1..Len(line) : line[e] = ";" => e <= d

\* content.replace(/import.*from.*react.*;/, `$&\n${importLine}`): the first
\* matching line is cut after its last ';' and the import line starts the
\* new line that follows
AddImportAfterReact(content) ==
  LET hits == { k \in 1..Len(content) : MatchesReactImport(content[k]) }
  IN IF hits = {} THEN content
     ELSE LET k == CHOOSE x \in hits : \A y \in hits : x <= y
              d == LastSemicolon(content[k])
          IN SubSeq(content, 1, k - 1)
               \o << SubSeq(content[k], 1, d),
                     ImportLine \o SubSeq(content[k], d + 1, Len(content[k])) >>
               \o SubSeq(content, k + 1, Len(content))

\* the import step shared by modifyProductCard and modifyGenericComponent
FastEnsureImport(content) ==
  IF ~MentionsGetExperiment(content) THEN AddImportAfterReact(content) ELSE content

\* experimentLogic of the fast patcher: a newline, then nine lines
FastExperimentLogic(component, experimentKey, parameterName) ==
  <<NL>> \o JoinLines(
    << SnippetMarker(experimentKey),
       <<WS, "const", "experiment", "=", "await", "getExperiment", "(", experimentKey, ")", ";">>,
       <<WS, "const", parameterName, "=", "experiment.metadata?.config?.", parameterName, "??", "false", ";">>,
       <<WS>>,
       <<WS, "//", "Log", "exposure">>,
       <<WS, "await", "logExposure", "(", experimentKey, ",", "experiment.variant", ",", "{">>,
       <<WS, "component:", component, ",">>,
       <<WS, "parameter:", parameterName>>,
       <<WS, "}", ")", ";">> >>)

\* end position of the leftmost occurrence of a literal pattern, 0 if none
LiteralMatchEnd(stream, pattern) ==
  LET hits == { p \in 1..(Len(stream) - Len(pattern) + 1) :
                  SubSeq(stream, p, p + Len(pattern) - 1) = pattern }
  IN IF hits = {} THEN 0
     ELSE (CHOOSE p \in hits : \A q \in hits : p <= q) + Len(pattern) - 1

\* new RegExp(`(const ${functionName} = \\([^)]*\\) => \\{)`): end position
\* of the leftmost match, 0 if none; [^)]* runs to the first ')' and may
\* cross line ends
GenericMatchEnd(stream, functionName) ==
  LET head == <<"const", functionName, "=", "(">>
      close(p) == { q \in (p + 4)..Len(stream) :
                      /\ stream[q] = ")"
                      /\ \A r \in (p + 4)..(q - 1) : stream[r] # ")" }
      hits == { p \in 1..(Len(stream) - 3) :
                  /\ SubSeq(stream, p, p + 3) = head
                  /\ \E q \in close(p) :
                       /\ q + 2 <= Len(stream)
                       /\ stream[q + 1] = "=>"
                       /\ stream[q + 2] = "{" }
  IN IF hits = {} THEN 0
     ELSE LET p == CHOOSE x \in hits : \A y \in hits : x <= y
          IN (CHOOSE q \in close(p) : TRUE) + 2

\* content.replace(pattern, `$1${experimentLogic}`)
InsertLogic(content, matchEnd, logic) ==
  SplitLines(Splice(JoinLines(content), matchEnd, logic))

\* FastCodeGenerator.modifyGenericComponent
modifyGenericComponent(content, functionName, experimentKey, parameterName) ==
  LET c1  == FastEnsureImport(content)
      end == GenericMatchEnd(JoinLines(c1), functionName)
  IN IF end # 0
       THEN InsertLogic(c1, end,
                        FastExperimentLogic(functionName, experimentKey, parameterName))
       ELSE c1

\* the seven literal declaration shapes of modifyProductCard, in order
PropsBoth ==
  <<"(", "{", "product", ",", "onAddToCart", "}", ":", "ProductCardProps", ")">>

PropsOne ==
  <<"(", "{", "product", "}", ":", "ProductCardProps", ")">>

ProductCardPatterns ==
  << <<"export", "default", "function", "ProductCard">> \o PropsBoth \o <<"=>", "{">>,
     <<"export", "default", "function", "ProductCard">> \o PropsBoth \o <<"{">>,
     <<"export", "default", "function", "ProductCard">> \o PropsOne \o <<"=>", "{">>,
     <<"export", "default", "function", "ProductCard">> \o PropsOne \o <<"{">>,
     <<"function", "ProductCard">> \o PropsBoth \o <<"=>", "{">>,
     <<"function", "ProductCard">> \o PropsBoth \o <<"{">>,
     <<"const", "ProductCard", "=">> \o PropsBoth \o <<"=>", "{">> >>

\* FastCodeGenerator.modifyProductCard
modifyProductCard(content, experimentKey, parameterName) ==
  LET c1     == FastEnsureImport(content)
      stream == JoinLines(c1)
      hits   == { k \in 1..Len(ProductCardPatterns) :
                    LiteralMatchEnd(stream, ProductCardPatterns[k]) # 0 }
  IN IF hits = {} THEN c1
     ELSE LET k == CHOOSE x \in hits : \A y \in hits : x <= y
          IN InsertLogic(c1, LiteralMatchEnd(stream, ProductCardPatterns[k]),
                         FastExperimentLogic("ProductCard", experimentKey, parameterName))

\* a patcher that skips files already carrying the snippet of the experiment
fastStringReplaceOnce(content, codeChange, contract) ==
  IF ContentIncludes(content, SnippetMarker(contract.experimentKey)) THEN content
  ELSE IF codeChange.file \in ProductCardFiles
    THEN modifyProductCard(content, contract.experimentKey, codeChange.parameterUsage)
  ELSE IF codeChange.file \in TypeScriptFiles
    THEN modifyGenericComponent(content, codeChange.function,
                                contract.experimentKey, codeChange.parameterUsage)
  ELSE content

\* FastCodeGenerator.fastStringReplace
fastStringReplace(content, codeChange, contract) ==
  IF codeChange.file \in ProductCardFiles
    THEN modifyProductCard(content, contract.experimentKey, codeChange.parameterUsage)
  ELSE IF codeChange.file \in TypeScriptFiles
    THEN modifyGenericComponent(content, codeChange.function,
                                contract.experimentKey, codeChange.parameterUsage)
  ELSE content

\* FastCodeGenerator.applyCodeChange
FastApplyCodeChange(fsv, codeChange, contract) ==
  LET file == codeChange.file
      fail(e) == [returned |-> TRUE, fs |-> fsv,
                  result |-> [success |-> FALSE, file |-> file,
                              changes |-> <<>>, errors |-> <<e>>]]
  IN IF fsv[file] = NoFile THEN fail(ReadError)
     ELSE LET modifiedContent == fastStringReplace(fsv[file], codeChange, contract)
          IN IF modifiedContent # fsv[file]
               THEN [returned |-> TRUE,
                     fs |-> [fsv EXCEPT ![file] = modifiedContent],
                     result |-> [success |-> TRUE, file |-> file,
                                 changes |-> <<"Applied experiment logic via fast string replacement">>,
                                 errors |-> <<>>]]
               ELSE fail(NoChangeError)

\* ------------------------------------------------------------------ inputs
ExperimentKey ==
  "prime_banner"

ParameterName ==
  "showBadge"

FileNames ==
  {"Button.tsx", "ProductCard.tsx", "notes.md"}

FunctionNames ==
  {"Button", "ProductCard"}

\* the lines source files are drawn from
LineVocabulary ==
  { <<"import", "React", "from", "'react'", ";">>,
    ImportLine,
    <<"import", "{", "logExposure", "}", "from", SQ_MODULE, ";">>,
    <<"export", "const", "Button", "=", "(", "props", ")", "=>", "{">>,
    <<WS, "function", "Button", "(", ")", "{">>,
    <<"export", "default", "function", "ProductCard">> \o PropsBoth \o <<"{">>,
    <<"}">>,
    <<>> }

\* all files of at most n lines
RECURSIVE FilesUpTo(_)
FilesUpTo(n) ==
  IF n = 1 THEN { <<l>> : l \in LineVocabulary }
  ELSE FilesUpTo(n - 1)
         \cup { Append(f, l) : f \in { g \in FilesUpTo(n - 1) : Len(g) = n - 1 },
                               l \in LineVocabulary }

CodeChanges ==
  { [file |-> f, function |-> fn, parameterUsage |-> ParameterName] :
      f \in FileNames, fn \in FunctionNames }

\* branch names, character by character
BranchNames ==
  { <<"e", "x", "p", "/", "b", "t", "n">>,
    <<"e", "x", "p", "/", "a", "_", "b">> }

\* characters of the model alphabet in [a-z0-9-]
UrlSafeChars ==
  {"e", "x", "p", "b", "t", "n", "a", "-"}

\* --------------------------------------------------------------- variables
VARIABLES
  fs,            \* file name -> content, or NoFile
  contract,      \* the loaded ExperimentContract
  \* patcher calls
  patcher,       \* patcher class in use: "scan" (CodeGenerator), "fast", "none"
  patchStatus,   \* "idle", "returned", or "hung" (the call has no exit)
  patchResult,   \* CodeModificationResult of the last call
  fsBefore,      \* file system before the last call
  fsInitial,     \* file system at start
  patchRuns,     \* applyCodeChange calls made
  patchSuccesses,\* calls that reported success
  \* create run
  pc,            \* stage about to run / running, or "Exit", "Hung", "Off"
  phase,         \* "ready" or "running"
  trace,         \* stages started, in order
  completed,     \* stages completed successfully
  failedStage,   \* stage whose failure aborted the run, or ""
  exitCode,      \* -1 while the process runs
  codeResults,   \* results returned by applyCodeChanges
  gitLog,        \* git commands executed
  previewUrl,
  deployRequested, \* a Vercel deployment was requested
  deployFailed,  \* the deployment wait failed (result without success, or a throw)
  statsigCalls,  \* Statsig API calls made, with their outcome
  experiment,    \* remote experiment: "none", "created", "targeted", "active"
  \* rollback sidecars
  rollbackFs,    \* file name -> content of `<file>.rollback`, or NoFile
  rbLog,         \* createRollback / restoreFromRollback calls and edits made
  \* deployment polling
  poll,          \* the pollDeployment call: position, clock, requests, result
  \* contract validation
  val,           \* the validateContract call: input, outcome, error lines
  contractFile,  \* contract/<key>.json: absent, not JSON, or JSON data
  contractFileInitial, \* the contract file at start
  \* preflight
  git,           \* local repository: branch, dirty flag, branch heads, origin
  buildOutput,   \* the build directory: "none" or "built"
  pre,           \* the validateExperiment call: position and PreflightResult
  preSnap,       \* the system state when the first preflight run began
  \* command line
  cli,           \* one invocation of the CLI: arguments, position, output, exit
  \* experiment client
  mcp,           \* the MCPClient: environment, construction, requests, remote
  \* process environment and GitHub
  env,           \* which optional environment variables are set
  pullRequests,  \* pull requests created on GitHub
  \* traffic generator
  traffic        \* one run of generateTraffic: users, batches, journeys, the SDK

vars ==
  <<fs, contract, patcher, patchStatus, patchResult, fsBefore, fsInitial,
    patchRuns, patchSuccesses, pc, phase, trace, completed, failedStage,
    exitCode, codeResults, gitLog, previewUrl, deployRequested, deployFailed,
    statsigCalls, experiment, rollbackFs, rbLog, poll, val, contractFile,
    contractFileInitial, git, buildOutput, pre, preSnap, cli, mcp, env, pullRequests,
    traffic>>

rollbackVars ==
  <<rollbackFs, rbLog>>

contractFileVars ==
  <<contractFile, contractFileInitial>>

preflightVars ==
  <<git, buildOutput, pre, preSnap>>

surfaceVars ==
  <<cli, mcp, env, pullRequests, traffic>>

auxVars ==
  <<rollbackVars, poll, val, contractFileVars, preflightVars, surfaceVars>>

patchVars ==
  <<patcher, patchStatus, patchResult, fsBefore, fsInitial, patchRuns, patchSuccesses>>

runVars ==
  <<pc, phase, trace, completed, failedStage, exitCode, codeResults, gitLog,
    previewUrl, deployRequested, deployFailed, statsigCalls, experiment>>

NoResult ==
  [success |-> FALSE, file |-> "", changes |-> <<>>, errors |-> <<>>]

PatchIdle ==
  /\ patchStatus = "idle"
  /\ patchResult = NoResult
  /\ patchRuns = 0
  /\ patchSuccesses = 0

RunOff ==
  /\ pc = "Off"
  /\ phase = "ready"
  /\ trace = <<>>
  /\ completed = {}
  /\ failedStage = ""
  /\ exitCode = -1
  /\ codeResults = <<>>
  /\ gitLog = <<>>
  /\ previewUrl = <<>>
  /\ deployRequested = FALSE
  /\ deployFailed = FALSE
  /\ statsigCalls = <<>>
  /\ experiment = "none"

RollbackOff ==
  /\ rollbackFs = [f \in FileNames |-> NoFile]
  /\ rbLog = <<>>

\* no pollDeployment call
PollOff ==
  poll = [pc |-> "idle", now |-> 0, startTime |-> 0, timeoutMs |-> 0,
          requests |-> <<>>, sleeps |-> 0, exit |-> "", result |-> <<>>]

\* no validateContract call
ValidateOff ==
  val = [pc |-> "idle", raw |-> <<>>, ok |-> FALSE, issues |-> <<>>, lines |-> <<>>]

\* no contract file in play
ContractFileOff ==
  /\ contractFile = [kind |-> "absent"]
  /\ contractFileInitial = [kind |-> "absent"]

\* the PreflightResult validateExperiment starts from
NewPreflightResult ==
  [success |-> TRUE, errors |-> <<>>, warnings |-> <<>>,
   checks |-> [contract |-> FALSE, environment |-> FALSE, codeChanges |-> FALSE,
               statsigConnectivity |-> FALSE, branchState |-> FALSE,
               deployment |-> FALSE]]

\* no preflight run
PreflightOff ==
  /\ git = [branch |-> "main", dirty |-> FALSE, head |-> "none",
            tracking |-> "none", origin |-> "none"]
  /\ buildOutput = "none"
  /\ pre = [pc |-> "idle", runs |-> 0, ran |-> <<>>, found |-> <<>>, added |-> {},
            result |-> NewPreflightResult]
  /\ preSnap = [kind |-> "none"]

\* no CLI invocation
CliOff ==
  cli = [pc |-> "off", command |-> "", experimentKey |-> "", contractPath |-> "",
         handler |-> "",
         helpShown |-> FALSE, log |-> <<>>, exitCode |-> -1]

\* no experiment client
McpOff ==
  mcp = [pc |-> "off", key |-> FALSE, config |-> "absent",
         error |-> [message |-> "", names |-> {}], requests |-> <<>>,
         remote |-> "none", remoteBefore |-> "none", rules |-> <<>>,
         result |-> [op |-> "", success |-> FALSE], ops |-> 0]

\* every optional variable set, no pull request
EnvOff ==
  /\ env = [vercel |-> TRUE, githubToken |-> TRUE, githubRepository |-> TRUE]
  /\ pullRequests = <<>>

\* no traffic generation
TrafficOff ==
  traffic = [pc |-> "off", secret |-> FALSE, userCount |-> 0, i |-> 0,
             journeys |-> <<>>, batches |-> <<>>, statsigInitialized |-> FALSE,
             initializeCalls |-> 0, shutdown |-> FALSE]

SurfaceOff ==
  /\ CliOff
  /\ McpOff
  /\ EnvOff
  /\ TrafficOff

AuxOff ==
  /\ RollbackOff
  /\ PollOff
  /\ ValidateOff
  /\ ContractFileOff
  /\ PreflightOff
  /\ SurfaceOff

\* ------------------------------------------------- patcher calls (PatchSpec)
\* one file on disk, one code change in the contract
PatchInit ==
  /\ \E name \in FileNames, content \in FilesUpTo(MaxFileLines) :
       fs = [f \in FileNames |-> IF f = name THEN content ELSE NoFile]
  /\ \E cc \in CodeChanges :
       /\ fs[cc.file] # NoFile
       /\ contract = [experimentKey |-> ExperimentKey, codeChanges |-> <<cc>>,
                      branchName |-> <<"e", "x", "p", "/", "b", "t", "n">>,
                      waitForDeployment |-> FALSE, autoStart |-> FALSE]
  /\ patcher \in {"scan", "fast"}
  /\ fsInitial = fs
  /\ fsBefore = fs
  /\ PatchIdle
  /\ RunOff
  /\ AuxOff

PatchCall(r) ==
  /\ fsBefore' = fs
  /\ patchRuns' = patchRuns + 1
  /\ patchStatus' = IF r.returned THEN "returned" ELSE "hung"
  /\ patchResult' = IF r.returned THEN r.result ELSE NoResult
  /\ patchSuccesses' = IF r.returned /\ r.result.success
                         THEN patchSuccesses + 1 ELSE patchSuccesses
  /\ fs' = r.fs
  /\ UNCHANGED <<contract, fsInitial, patcher>>
  /\ UNCHANGED <<runVars, auxVars>>

\* CodeGenerator.applyCodeChange(codeChanges[0], contract)
ScanPatch ==
  /\ patcher = "scan"
  /\ patchStatus # "hung"
  /\ patchRuns < MaxRuns
  /\ PatchCall(ScanApplyCodeChange(fs, contract.codeChanges[1], contract))

\* FastCodeGenerator.applyCodeChange(codeChanges[0], contract)
FastPatch ==
  /\ patcher = "fast"
  /\ patchStatus # "hung"
  /\ patchRuns < MaxRuns
  /\ PatchCall(FastApplyCodeChange(fs, contract.codeChanges[1], contract))

PatchNext ==
  \/ ScanPatch
  \/ FastPatch

PatchSpec ==
  PatchInit /\ [][PatchNext]_vars

\* ---------------------------------------------- contract schema (validate)
MaxVariants ==
  3

MaxContractChanges ==
  2

\* characters of branch names
LowerChars ==
  {"a", "b", "e", "i", "m", "n", "p", "r", "t", "x"}

UpperChars ==
  {"A", "E", "P", "X"}

OtherWordChars ==
  {"0", "_", "-"}

\* the `i` flag: letters are compared without regard to case
LowerCase(c) ==
  CASE c = "A" -> "a"
    [] c = "E" -> "e"
    [] c = "P" -> "p"
    [] c = "X" -> "x"
    [] OTHER -> c

\* /^exp\/[a-z0-9_-]+$/ without the `i` flag
MatchesBranchPatternCaseSensitive(name) ==
  /\ Len(name) >= 5
  /\ SubSeq(name, 1, 4) = <<"e", "x", "p", "/">>
  /\ \A i \in 5..Len(name) : name[i] \in LowerChars \cup OtherWordChars

\* /^exp\/[a-z0-9_-]+$/i
MatchesBranchPattern(name) ==
  /\ Len(name) >= 5
  /\ [i \in 1..4 |-> LowerCase(name[i])] = <<"e", "x", "p", "/">>
  /\ \A i \in 5..Len(name) : LowerCase(name[i]) \in LowerChars \cup OtherWordChars

Issue(path, message) ==
  [path |-> path, message |-> message]

\* CodeChangeSchema on entry k (0-based in the path)
CodeChangeIssues(changes, k) ==
  LET at(field) == <<"codeChanges", ToString(k - 1), field>>
  IN (IF changes[k].file = ""
        THEN <<Issue(at("file"), "File path is required")>> ELSE <<>>)
     \o (IF changes[k].function = ""
          THEN <<Issue(at("function"), "Function/component name is required")>>
          ELSE <<>>)
     \o (IF changes[k].parameterUsage = ""
          THEN <<Issue(at("parameterUsage"), "Parameter usage is required")>>
          ELSE <<>>)

RECURSIVE CodeChangesIssuesFrom(_, _)
CodeChangesIssuesFrom(changes, k) ==
  IF k > Len(changes) THEN <<>>
  ELSE CodeChangeIssues(changes, k) \o CodeChangesIssuesFrom(changes, k + 1)

\* a schema that takes any non-empty variants record
SchemaIssuesOneVariant(raw) ==
  (IF raw.experimentKey = ""
     THEN <<Issue(<<"experimentKey">>, "Experiment key is required")>> ELSE <<>>)
  \o (IF raw.name = ""
       THEN <<Issue(<<"name">>, "Experiment name is required")>> ELSE <<>>)
  \o (IF raw.variants < 1
       THEN <<Issue(<<"variants">>,
                    "At least 2 variants are required (control and treatment)")>>
       ELSE <<>>)
  \o CodeChangesIssuesFrom(raw.codeChanges, 1)
  \o (IF Len(raw.codeChanges) < 1
       THEN <<Issue(<<"codeChanges">>, "At least one code change is required")>>
       ELSE <<>>)
  \o (IF ~MatchesBranchPattern(raw.branchName)
       THEN <<Issue(<<"branchConfig", "branchName">>,
                    "Branch name must match exp/<key> pattern")>>
       ELSE <<>>)

\* ExperimentContractSchema.parse: the issues, field by field in the order
\* of the schema; every field is parsed whatever the others gave
SchemaIssues(raw) ==
  (IF raw.experimentKey = ""
     THEN <<Issue(<<"experimentKey">>, "Experiment key is required")>> ELSE <<>>)
  \o (IF raw.name = ""
       THEN <<Issue(<<"name">>, "Experiment name is required")>> ELSE <<>>)
  \o (IF raw.variants < 2
       THEN <<Issue(<<"variants">>,
                    "At least 2 variants are required (control and treatment)")>>
       ELSE <<>>)
  \o CodeChangesIssuesFrom(raw.codeChanges, 1)
  \o (IF Len(raw.codeChanges) < 1
       THEN <<Issue(<<"codeChanges">>, "At least one code change is required")>>
       ELSE <<>>)
  \o (IF ~MatchesBranchPattern(raw.branchName)
       THEN <<Issue(<<"branchConfig", "branchName">>,
                    "Branch name must match exp/<key> pattern")>>
       ELSE <<>>)

\* err.path.join('.')
RECURSIVE JoinPath(_)
JoinPath(path) ==
  IF Len(path) = 1 THEN path
  ELSE <<path[1], ".">> \o JoinPath(Tail(path))

\* `${err.path.join('.')}: ${err.message}`
IssueLine(issue) ==
  JoinPath(issue.path) \o <<":", issue.message>>

\* validateContract: the parsed contract, or the error whose message is
\* `Contract validation failed:` followed by one line per issue
validateContract(raw) ==
  LET issues == SchemaIssues(raw)
  IN [ok |-> issues = <<>>,
      issues |-> issues,
      lines |-> [i \in 1..Len(issues) |-> IssueLine(issues[i])]]

\* the characters of an experiment key
ExperimentKeyChars ==
  <<"p", "r", "i", "m", "e", "_", "b", "a", "n", "n", "e", "r">>

CharsOf(key) ==
  IF key = ExperimentKey THEN ExperimentKeyChars ELSE <<>>

\* createDefaultContract: control and treatment, no code change, branch
\* exp/<key>, waitForDeployment true, autoStart false
createDefaultContract(experimentKey) ==
  [experimentKey |-> experimentKey,
   name |-> "Experiment: <key>",
   variants |-> 2,
   codeChanges |-> <<>>,
   branchName |-> <<"e", "x", "p", "/">> \o CharsOf(experimentKey),
   waitForDeployment |-> TRUE,
   autoStart |-> FALSE]

\* contract file: absent, not JSON, or JSON data
NoContract ==
  [kind |-> "absent"]

BadJson ==
  [kind |-> "garbage"]

JsonFile(raw) ==
  [kind |-> "json", data |-> raw]

\* the ExperimentContract validate returns, as far as the run reads it
ParsedContract(raw) ==
  [experimentKey |-> raw.experimentKey, codeChanges |-> raw.codeChanges,
   branchName |-> raw.branchName, waitForDeployment |-> raw.waitForDeployment,
   autoStart |-> raw.autoStart]

\* `contract` before loadContract has returned
UnloadedContract ==
  [experimentKey |-> ExperimentKey, codeChanges |-> <<>>, branchName |-> <<>>,
   waitForDeployment |-> FALSE, autoStart |-> FALSE]

\* ExperimentRunner.loadContract: the file after the call, and the contract
\* returned or the error thrown
loadContract(file, experimentKey) ==
  LET written == IF file.kind = "absent"
                   THEN JsonFile(createDefaultContract(experimentKey))
                   ELSE file
  IN IF written.kind = "garbage"
       THEN [file |-> written, threw |-> TRUE, parsed |-> FALSE,
             validation |-> [ok |-> FALSE, issues |-> <<>>, lines |-> <<>>]]
       ELSE LET v == validateContract(written.data)
            IN [file |-> written, threw |-> ~v.ok, parsed |-> TRUE, validation |-> v]

\* ------------------------------------------- create run (ExperimentRunner)
MaxChanges ==
  2

Stages ==
  {"LoadContract", "CreateOrCheckoutBranch", "ApplyCodeChanges", "CommitAndPush",
   "AwaitDeployment", "CreateRemoteExperiment", "ConfigureTargeting", "AutoStart",
   "Done"}

\* the statement order of runExperiment with its two `if`s
NextStageSwapped(stage, c) ==
  CASE stage = "LoadContract" -> "CreateOrCheckoutBranch"
    [] stage = "CreateOrCheckoutBranch" -> "ApplyCodeChanges"
    [] stage = "ApplyCodeChanges" -> "CommitAndPush"
    [] stage = "CommitAndPush" ->
         IF c.waitForDeployment THEN "AwaitDeployment" ELSE "ConfigureTargeting"
    [] stage = "AwaitDeployment" -> "ConfigureTargeting"
    [] stage = "ConfigureTargeting" -> "CreateRemoteExperiment"
    [] stage = "CreateRemoteExperiment" ->
         IF c.autoStart THEN "AutoStart" ELSE "Done"
    [] stage = "AutoStart" -> "Done"
    [] OTHER -> "Exit"

NextStageIgnoringFlags(stage, c) ==
  CASE stage = "LoadContract" -> "CreateOrCheckoutBranch"
    [] stage = "CreateOrCheckoutBranch" -> "ApplyCodeChanges"
    [] stage = "ApplyCodeChanges" -> "CommitAndPush"
    [] stage = "CommitAndPush" -> "AwaitDeployment"
    [] stage = "AwaitDeployment" -> "CreateRemoteExperiment"
    [] stage = "CreateRemoteExperiment" -> "ConfigureTargeting"
    [] stage = "ConfigureTargeting" -> "AutoStart"
    [] stage = "AutoStart" -> "Done"
    [] OTHER -> "Exit"

NextStage(stage, c) ==
  CASE stage = "LoadContract" -> "CreateOrCheckoutBranch"
    [] stage = "CreateOrCheckoutBranch" -> "ApplyCodeChanges"
    [] stage = "ApplyCodeChanges" -> "CommitAndPush"
    [] stage = "CommitAndPush" ->
         IF c.waitForDeployment THEN "AwaitDeployment" ELSE "CreateRemoteExperiment"
    [] stage = "AwaitDeployment" -> "CreateRemoteExperiment"
    [] stage = "CreateRemoteExperiment" -> "ConfigureTargeting"
    [] stage = "ConfigureTargeting" ->
         IF c.autoStart THEN "AutoStart" ELSE "Done"
    [] stage = "AutoStart" -> "Done"
    [] OTHER -> "Exit"

\* branchName.replace(/[^a-z0-9-]/gi, '-')
SanitizeBranch(branchName) ==
  [i \in 1..Len(branchName) |->
     IF branchName[i] \in UrlSafeChars THEN branchName[i] ELSE "-"]

\* `https://${...}-dh25-demo-site.vercel.app`
FallbackUrl(branchName) ==
  <<"https://">> \o SanitizeBranch(branchName) \o <<"-dh25-demo-site.vercel.app">>

DeploymentUrl ==
  <<"https://", "d", "p", "l", ".vercel.app">>

MockDeploymentUrl ==
  <<"https://", "mock-deployment.vercel.app">>

\* results of VercelClient.createDeployment
CreateDeploymentResults ==
  { [success |-> TRUE, hasDeployment |-> TRUE, url |-> DeploymentUrl, error |-> ""],
    [success |-> FALSE, hasDeployment |-> FALSE, url |-> <<>>,
     error |-> "Vercel deployment failed"] }

\* results of VercelClient.pollDeployment
PollDeploymentResults ==
  { [success |-> TRUE, hasDeployment |-> TRUE, url |-> DeploymentUrl, error |-> ""],
    [success |-> TRUE, hasDeployment |-> TRUE, url |-> <<>>, error |-> ""],
    [success |-> FALSE, hasDeployment |-> FALSE, url |-> <<>>, error |-> "Deployment error"],
    [success |-> FALSE, hasDeployment |-> FALSE, url |-> <<>>, error |-> "Deployment canceled"],
    [success |-> FALSE, hasDeployment |-> FALSE, url |-> <<>>, error |-> "Deployment timeout"],
    [success |-> FALSE, hasDeployment |-> FALSE, url |-> <<>>, error |-> "Unknown error"] }

\* VercelClient.waitForDeployment: create, then poll
VercelWaitForDeployment(createResult, pollResult) ==
  IF ~createResult.success \/ ~createResult.hasDeployment
    THEN createResult
    ELSE pollResult

\* createVercelClient: token, org id and project id are all set
VercelConfigured(e) ==
  e.vercel

\* createGitHubClient: the error it throws, "" when it returns a client
GitHubClientError(e) ==
  IF ~e.githubToken THEN "Missing GITHUB_TOKEN environment variable."
  ELSE IF ~e.githubRepository THEN "Missing GITHUB_REPOSITORY environment variable."
  ELSE ""

\* the mock client getVercelClient returns without Vercel configuration
MockWaitForDeployment ==
  [success |-> TRUE, hasDeployment |-> FALSE, url |-> MockDeploymentUrl, error |-> ""]

\* ExperimentRunner.waitForDeployment: the URL the stage returns
RunnerWaitForDeploymentNoFallback(branchName, threw, result) ==
  result.url

RunnerWaitForDeployment(branchName, threw, result) ==
  IF ~threw /\ result.success /\ result.url # <<>>
    THEN result.url
    ELSE FallbackUrl(branchName)

\* results.filter(r => !r.success).length > 0
CodeChangesFailedFirstOnly(results) ==
  ~results[1].success

CodeChangesFailed(results) ==
  \E i \in 1..Len(results) : ~results[i].success

\* StatsigAPI.createExperiment: result.success && result.data?.id
CreateSucceeded(result) ==
  result.success /\ result.id # ""

\* StatsigAPI.updateExperimentTargeting: result.success
TargetingSucceededAlways(result) ==
  TRUE

TargetingSucceeded(result) ==
  result.success

\* CodeGenerator.applyCodeChanges: every entry in contract order
RECURSIVE ApplyCodeChangesFrom(_, _, _, _)
ApplyCodeChangesFrom(fsv, k, results, c) ==
  IF k > Len(c.codeChanges)
    THEN [returned |-> TRUE, fs |-> fsv, results |-> results]
    ELSE LET r == ScanApplyCodeChange(fsv, c.codeChanges[k], c)
         IN IF ~r.returned
              THEN [returned |-> FALSE, fs |-> fsv, results |-> results]
              ELSE ApplyCodeChangesFrom(r.fs, k + 1, Append(results, r.result), c)

applyCodeChanges(fsv, c) ==
  ApplyCodeChangesFrom(fsv, 1, <<>>, c)

\* files of the working tree at the start of a run
ButtonFiles ==
  { << ImportLine,
       <<"export", "const", "Button", "=", "(", "props", ")", "=>", "{">>,
       <<"}">> >>,
    << <<"import", "React", "from", "'react'", ";">>,
       <<"export", "const", "Button", "=", "(", "props", ")", "=>", "{">>,
       <<"}">> >>,
    << <<"import", "React", "from", "'react'", ";">>, <<"}">> >>,
    NoFile }

ProductCardFileContents ==
  { << ImportLine,
       <<"export", "default", "function", "ProductCard">> \o PropsBoth \o <<"{">>,
       <<"}">> >>,
    << <<"import", "React", "from", "'react'", ";">>, <<"}">> >> }

RunCodeChanges ==
  { [file |-> "Button.tsx", function |-> "Button", parameterUsage |-> ParameterName],
    [file |-> "ProductCard.tsx", function |-> "ProductCard",
     parameterUsage |-> ParameterName] }

RECURSIVE ChangeLists(_)
ChangeLists(n) ==
  IF n = 1 THEN { <<cc>> : cc \in RunCodeChanges }
  ELSE ChangeLists(n - 1)
         \cup { Append(l, cc) : l \in { m \in ChangeLists(n - 1) : Len(m) = n - 1 },
                                cc \in RunCodeChanges }

\* contract files that pass validation
ValidRunContracts ==
  { [experimentKey |-> ExperimentKey, name |-> "Prime banner", variants |-> 2,
     codeChanges |-> changes, branchName |-> branch,
     waitForDeployment |-> wait, autoStart |-> start] :
      changes \in ChangeLists(MaxChanges), branch \in BranchNames,
      wait \in BOOLEAN, start \in BOOLEAN }

\* contract files that do not: one, two and four constraints violated
InvalidRunContracts ==
  { [experimentKey |-> ExperimentKey, name |-> "Prime banner", variants |-> 1,
     codeChanges |-> <<[file |-> "Button.tsx", function |-> "Button",
                        parameterUsage |-> ParameterName]>>,
     branchName |-> <<"e", "x", "p", "/", "b", "t", "n">>,
     waitForDeployment |-> TRUE, autoStart |-> FALSE],
    [experimentKey |-> ExperimentKey, name |-> "Prime banner", variants |-> 2,
     codeChanges |-> <<[file |-> "Button.tsx", function |-> "",
                        parameterUsage |-> ParameterName]>>,
     branchName |-> <<"m", "a", "i", "n">>,
     waitForDeployment |-> TRUE, autoStart |-> FALSE],
    [experimentKey |-> ExperimentKey, name |-> "", variants |-> 0,
     codeChanges |-> <<>>,
     branchName |-> <<"e", "x", "p", "/">>,
     waitForDeployment |-> TRUE, autoStart |-> FALSE] }

RunContractFiles ==
  {NoContract, BadJson}
    \cup { JsonFile(raw) : raw \in ValidRunContracts \cup InvalidRunContracts }

\* the state a create run starts from, at statement firstPc
RunInit(firstPc) ==
  /\ \E b \in ButtonFiles, p \in ProductCardFileContents :
       fs = [f \in FileNames |-> IF f = "Button.tsx" THEN b
                                 ELSE IF f = "ProductCard.tsx" THEN p
                                 ELSE NoFile]
  /\ contractFile \in RunContractFiles
  /\ contractFileInitial = contractFile
  /\ contract = UnloadedContract
  /\ patcher = "none"
  /\ fsInitial = fs
  /\ fsBefore = fs
  /\ PatchIdle
  /\ RollbackOff
  /\ PollOff
  /\ ValidateOff
  /\ PreflightOff
  /\ CliOff
  /\ McpOff
  /\ TrafficOff
  /\ pullRequests = <<>>
  /\ pc = firstPc
  /\ phase = "ready"
  /\ trace = <<>>
  /\ completed = {}
  /\ failedStage = ""
  /\ exitCode = -1
  /\ codeResults = <<>>
  /\ gitLog = <<>>
  /\ previewUrl = <<>>
  /\ deployRequested = FALSE
  /\ deployFailed = FALSE
  /\ statsigCalls = <<>>
  /\ experiment = "none"

\* `experiment create <key>` has been invoked and run-experiment's imports
\* have been evaluated: the GitHub variables are set, the Vercel ones or not
Init ==
  /\ RunInit("LoadContract")
  /\ env \in [vercel : BOOLEAN, githubToken : {TRUE}, githubRepository : {TRUE}]

\* the next statement of runExperiment is reached: its stage begins
StartStage ==
  /\ pc \in Stages
  /\ phase = "ready"
  /\ phase' = "running"
  /\ trace' = Append(trace, pc)
  /\ UNCHANGED <<fs, contract, pc, completed, failedStage, exitCode, codeResults,
                 gitLog, previewUrl, deployRequested, deployFailed, statsigCalls,
                 experiment>>
  /\ UNCHANGED <<patchVars, auxVars>>

\* the stage's promise resolved: go on with the statement after it
Proceed(stage) ==
  /\ completed' = completed \cup {stage}
  /\ pc' = NextStage(stage, contract)
  /\ phase' = "ready"
  /\ UNCHANGED <<failedStage, exitCode>>

\* the stage threw: catch block, process.exit(1)
Abort(stage) ==
  /\ pc' = "Exit"
  /\ phase' = "ready"
  /\ failedStage' = stage
  /\ exitCode' = 1
  /\ UNCHANGED completed

Running(stage) ==
  pc = stage /\ phase = "running"

\* loadContract: write the default template when there is no contract file,
\* then read, parse and validate the file
FinishLoadContract ==
  /\ Running("LoadContract")
  /\ LET r == loadContract(contractFile, ExperimentKey)
     IN /\ contractFile' = r.file
        /\ val' = IF r.parsed
                    THEN [pc |-> "done", raw |-> r.file.data, ok |-> r.validation.ok,
                          issues |-> r.validation.issues, lines |-> r.validation.lines]
                    ELSE val
        /\ IF r.threw
             THEN Abort("LoadContract") /\ UNCHANGED contract
             ELSE Proceed("LoadContract") /\ contract' = ParsedContract(r.file.data)
  /\ UNCHANGED <<fs, trace, codeResults, gitLog, previewUrl,
                 deployRequested, deployFailed, statsigCalls, experiment>>
  /\ UNCHANGED <<patchVars, rollbackVars, poll, contractFileInitial, preflightVars,
                 surfaceVars>>

\* createExperimentBranch: checkout of an existing branch, or checkout of the
\* base branch, pull and checkout -b; any failing command aborts
FinishCreateOrCheckoutBranch ==
  /\ Running("CreateOrCheckoutBranch")
  /\ \E branchExists \in BOOLEAN, failAt \in 0..3 :
       LET cmds == IF branchExists THEN <<"checkout">>
                   ELSE <<"checkout-base", "pull", "checkout-b">>
           ran  == IF failAt = 0 \/ failAt > Len(cmds) THEN cmds
                   ELSE SubSeq(cmds, 1, failAt)
       IN /\ gitLog' = gitLog \o ran
          /\ IF failAt = 0 \/ failAt > Len(cmds)
               THEN Proceed("CreateOrCheckoutBranch")
               ELSE Abort("CreateOrCheckoutBranch")
  /\ UNCHANGED <<fs, contract, trace, codeResults, previewUrl,
                 deployRequested, deployFailed, statsigCalls, experiment>>
  /\ UNCHANGED <<patchVars, auxVars>>

\* applyCodeChanges returned: abort when a result reports failure
FinishApplyCodeChanges ==
  /\ Running("ApplyCodeChanges")
  /\ LET r == applyCodeChanges(fs, contract)
     IN /\ r.returned
        /\ fs' = r.fs
        /\ codeResults' = r.results
        /\ IF CodeChangesFailed(r.results)
             THEN Abort("ApplyCodeChanges")
             ELSE Proceed("ApplyCodeChanges")
  /\ UNCHANGED <<contract, trace, gitLog, previewUrl, deployRequested,
                 deployFailed, statsigCalls, experiment>>
  /\ UNCHANGED <<patchVars, auxVars>>

\* applyCodeChanges never returns: the scan of one entry has no exit, so
\* codeResults is never assigned; entries patched before stay on disk
HangInApplyCodeChanges ==
  /\ Running("ApplyCodeChanges")
  /\ LET r == applyCodeChanges(fs, contract)
     IN /\ ~r.returned
        /\ fs' = r.fs
  /\ pc' = "Hung"
  /\ UNCHANGED <<contract, phase, trace, completed, failedStage, exitCode,
                 codeResults, gitLog, previewUrl, deployRequested, deployFailed,
                 statsigCalls, experiment>>
  /\ UNCHANGED <<patchVars, auxVars>>

\* commitAndPushChanges: git add, commit, push; any failing command aborts.
\* Without deployment wait the fallback URL is set right after.
FinishCommitAndPush ==
  /\ Running("CommitAndPush")
  /\ \E failAt \in 0..3 :
       LET cmds == <<"add", "commit", "push">>
       IN /\ gitLog' = gitLog \o (IF failAt = 0 THEN cmds ELSE SubSeq(cmds, 1, failAt))
          /\ IF failAt = 0
               THEN /\ Proceed("CommitAndPush")
                    /\ previewUrl' = IF contract.waitForDeployment THEN <<>>
                                     ELSE FallbackUrl(contract.branchName)
               ELSE /\ Abort("CommitAndPush")
                    /\ UNCHANGED previewUrl
  /\ UNCHANGED <<fs, contract, trace, codeResults, deployRequested,
                 deployFailed, statsigCalls, experiment>>
  /\ UNCHANGED <<patchVars, auxVars>>

\* waitForDeployment: Vercel result or the fallback URL; never aborts
FinishAwaitDeployment ==
  /\ Running("AwaitDeployment")
  /\ \E threw \in BOOLEAN,
        cr \in CreateDeploymentResults, pr \in PollDeploymentResults :
       LET configured == VercelConfigured(env)
           result == IF configured THEN VercelWaitForDeployment(cr, pr)
                     ELSE MockWaitForDeployment
       IN /\ previewUrl' = RunnerWaitForDeployment(contract.branchName, threw, result)
          /\ deployRequested' = configured
          /\ deployFailed' = (threw \/ ~result.success)
  /\ Proceed("AwaitDeployment")
  /\ UNCHANGED <<fs, contract, trace, codeResults, gitLog, statsigCalls, experiment>>
  /\ UNCHANGED <<patchVars, auxVars>>

\* statsigAPI.createExperiment
FinishCreateRemoteExperiment ==
  /\ Running("CreateRemoteExperiment")
  /\ \E result \in { [success |-> TRUE, id |-> ExperimentKey],
                     [success |-> TRUE, id |-> ""],
                     [success |-> FALSE, id |-> ""] } :
       /\ statsigCalls' = Append(statsigCalls,
                                 [op |-> "create", ok |-> CreateSucceeded(result)])
       /\ experiment' = IF result.success THEN "created" ELSE experiment
       /\ IF CreateSucceeded(result)
            THEN Proceed("CreateRemoteExperiment")
            ELSE Abort("CreateRemoteExperiment")
  /\ UNCHANGED <<fs, contract, trace, codeResults, gitLog, previewUrl,
                 deployRequested, deployFailed>>
  /\ UNCHANGED <<patchVars, auxVars>>

\* statsigAPI.updateExperimentTargeting; the pull-request step that follows
\* is commented out and only logs that it is skipped
FinishConfigureTargeting ==
  /\ Running("ConfigureTargeting")
  /\ \E result \in { [success |-> TRUE], [success |-> FALSE] } :
       /\ statsigCalls' = Append(statsigCalls, [op |-> "targeting", ok |-> result.success])
       /\ experiment' = IF result.success /\ experiment = "created"
                          THEN "targeted" ELSE experiment
       /\ IF TargetingSucceeded(result)
            THEN Proceed("ConfigureTargeting")
            ELSE Abort("ConfigureTargeting")
  /\ UNCHANGED <<fs, contract, trace, codeResults, gitLog, previewUrl,
                 deployRequested, deployFailed>>
  /\ UNCHANGED <<patchVars, auxVars>>

\* statsigAPI.startExperiment
FinishAutoStart ==
  /\ Running("AutoStart")
  /\ \E result \in { [success |-> TRUE], [success |-> FALSE] } :
       /\ statsigCalls' = Append(statsigCalls, [op |-> "start", ok |-> result.success])
       /\ experiment' = IF result.success THEN "active" ELSE experiment
       /\ IF result.success THEN Proceed("AutoStart") ELSE Abort("AutoStart")
  /\ UNCHANGED <<fs, contract, trace, codeResults, gitLog, previewUrl,
                 deployRequested, deployFailed>>
  /\ UNCHANGED <<patchVars, auxVars>>

\* the closing log lines; runExperiment returns and the process ends
FinishDone ==
  /\ Running("Done")
  /\ completed' = completed \cup {"Done"}
  /\ pc' = "Exit"
  /\ phase' = "ready"
  /\ exitCode' = 0
  /\ UNCHANGED <<fs, contract, trace, failedStage, codeResults, gitLog, previewUrl,
                 deployRequested, deployFailed, statsigCalls, experiment>>
  /\ UNCHANGED <<patchVars, auxVars>>

Next ==
  \/ StartStage
  \/ FinishLoadContract
  \/ FinishCreateOrCheckoutBranch
  \/ FinishApplyCodeChanges
  \/ HangInApplyCodeChanges
  \/ FinishCommitAndPush
  \/ FinishAwaitDeployment
  \/ FinishCreateRemoteExperiment
  \/ FinishConfigureTargeting
  \/ FinishAutoStart
  \/ FinishDone

Spec ==
  Init /\ [][Next]_vars

\* ---- the process from its start: run-experiment's imports, then the run
StartupInit ==
  /\ RunInit("Import")
  /\ env \in [vercel : BOOLEAN, githubToken : BOOLEAN, githubRepository : BOOLEAN]

\* the imports of run-experiment are evaluated: github-client builds its
\* global client at module level, vercel-client builds nothing until asked;
\* an import that throws ends the process with code 1 before runExperiment
ImportModules ==
  /\ pc = "Import"
  /\ IF GitHubClientError(env) # ""
       THEN /\ pc' = "Exit"
            /\ failedStage' = "Import"
            /\ exitCode' = 1
       ELSE /\ pc' = "LoadContract"
            /\ UNCHANGED <<failedStage, exitCode>>
  /\ UNCHANGED <<fs, contract, phase, trace, completed, codeResults, gitLog,
                 previewUrl, deployRequested, deployFailed, statsigCalls, experiment>>
  /\ UNCHANGED <<patchVars, auxVars>>

StartupNext ==
  \/ ImportModules
  \/ Next

StartupSpec ==
  StartupInit /\ [][StartupNext]_vars

\* --------------------------------------------------- create run claims (Spec)
\* the fixed order of the stages, and the two optional ones
StageOrder ==
  <<"LoadContract", "CreateOrCheckoutBranch", "ApplyCodeChanges", "CommitAndPush",
    "AwaitDeployment", "CreateRemoteExperiment", "ConfigureTargeting", "AutoStart",
    "Done">>

OptionalStages ==
  {"AwaitDeployment", "AutoStart"}

StageRank(stage) ==
  CHOOSE k \in 1..Len(StageOrder) : StageOrder[k] = stage

Started(stage) ==
  \E i \in 1..Len(trace) : trace[i] = stage

Called(op) ==
  \E i \in 1..Len(statsigCalls) : statsigCalls[i].op = op

CallFailed(op) ==
  \E i \in 1..Len(statsigCalls) : statsigCalls[i].op = op /\ ~statsigCalls[i].ok

GitRan(cmd) ==
  \E i \in 1..Len(gitLog) : gitLog[i] = cmd

\* C1: the stages start in the fixed order, each only after every earlier
\* non-optional stage has completed successfully, never two at a time, and
\* no stage starts after a fatal failure.
C1_StagesInOrder ==
  /\ \A i, j \in 1..Len(trace) :
       i < j => StageRank(trace[i]) < StageRank(trace[j])
  /\ \A i \in 1..Len(trace) :
       \A k \in 1..(StageRank(trace[i]) - 1) :
         StageOrder[k] \notin OptionalStages => StageOrder[k] \in completed
  /\ \A i \in 1..(Len(trace) - 1) : trace[i] \in completed
  /\ failedStage # ""
       => /\ trace[Len(trace)] = failedStage
          /\ failedStage \notin completed
          /\ pc = "Exit"
          /\ exitCode = 1

C1_Witness ==
  /\ exitCode = 0
  /\ trace = StageOrder

C3_StatsigFailureAborts ==
  /\ CallFailed("create")
       => /\ exitCode = 1
          /\ ~Started("ConfigureTargeting") /\ ~Called("targeting")
          /\ ~Started("AutoStart") /\ ~Called("start")
  /\ CallFailed("targeting")
       => /\ exitCode = 1
          /\ ~Started("AutoStart") /\ ~Called("start")
          /\ experiment # "active"

C3_Witness ==
  /\ CallFailed("targeting")
  /\ contract.autoStart
  /\ exitCode = 1

\* C4: a failed deployment wait does not abort the run: the preview URL is
\* the one derived from the branch name and the run goes on to create the
\* experiment.
C4_DeploymentFailureNotFatal ==
  deployFailed
  => /\ previewUrl = FallbackUrl(contract.branchName)
     /\ \A i \in 1..Len(previewUrl) : previewUrl[i] \notin {"/", "_"}
     /\ "AwaitDeployment" \in completed
     /\ failedStage # "AwaitDeployment"
     /\ pc = "CreateRemoteExperiment" \/ Started("CreateRemoteExperiment")

C4_Witness ==
  /\ deployFailed
  /\ deployRequested
  /\ exitCode = 0

\* C5: the deployment stage is entered exactly when waitForDeployment is
\* true and the experiment is started exactly when autoStart is true; without
\* autoStart the run ends with the experiment created but not started.
C5_OptionalStagesFollowFlags ==
  /\ (Started("AwaitDeployment") \/ deployRequested) => contract.waitForDeployment
  /\ (Started("AutoStart") \/ Called("start")) => contract.autoStart
  /\ (Started("CreateRemoteExperiment") /\ contract.waitForDeployment)
       => "AwaitDeployment" \in completed
  /\ (Started("Done") /\ contract.autoStart) => "AutoStart" \in completed
  /\ (exitCode = 0 /\ ~contract.autoStart) => experiment \in {"created", "targeted"}
  /\ (exitCode = 0 /\ contract.autoStart) => experiment = "active"

C5_Witness ==
  /\ exitCode = 0
  /\ ~contract.autoStart
  /\ ~contract.waitForDeployment
  /\ experiment = "targeted"

\* ------------------------------------------------ patcher claims (PatchSpec)
TheChange ==
  contract.codeChanges[1]

\* number of lines of the file that are a recognized declaration of fn
DeclarationLines(content, functionName) ==
  { k \in 1..Len(content) : isTargetFunction(content[k], functionName) }

\* the fast patcher's patterns recognize a declaration in the file
FastRecognizes(content, codeChange) ==
  IF codeChange.file \in ProductCardFiles
    THEN \E k \in 1..Len(ProductCardPatterns) :
           LiteralMatchEnd(JoinLines(content), ProductCardPatterns[k]) # 0
  ELSE IF codeChange.file \in TypeScriptFiles
    THEN GenericMatchEnd(JoinLines(content), codeChange.function) # 0
  ELSE FALSE

\* copies of the snippet in a file
SnippetCount(content) ==
  Cardinality({ k \in 1..Len(content) : content[k] = SnippetMarker(ExperimentKey) })

\* import lines of the experiment-access module in a file
ModuleImportCount(content) ==
  Cardinality({ k \in 1..Len(content) :
                  /\ IsImportLine(content[k])
                  /\ \/ Includes(content[k], <<"from", SQ_MODULE>>)
                     \/ Includes(content[k], <<"from", DQ_MODULE>>) })

\* a is b with some lines left out
RECURSIVE IsSubsequence(_, _)
IsSubsequence(a, b) ==
  IF a = <<>> THEN TRUE
  ELSE IF b = <<>> THEN FALSE
  ELSE IF Head(a) = Head(b) THEN IsSubsequence(Tail(a), Tail(b))
  ELSE IsSubsequence(a, Tail(b))

\* C6: line-scanning patcher, no line of the file is a recognized declaration
\* of the requested function: the call fails with an error naming the
\* function and the file is unchanged.
C6_ScanTargetNotFound ==
  (/\ patcher = "scan"
   /\ patchRuns >= 1
   /\ DeclarationLines(fsBefore[TheChange.file], TheChange.function) = {})
  => /\ patchStatus = "returned"
     /\ patchResult.success = FALSE
     /\ \E e \in 1..Len(patchResult.errors) :
          patchResult.errors[e].function = TheChange.function
     /\ fs = fsBefore

C6_Witness ==
  /\ patcher = "scan"
  /\ patchRuns >= 1
  /\ DeclarationLines(fsBefore[TheChange.file], TheChange.function) = {}
  /\ patchStatus = "returned"
  /\ patchResult.success = FALSE
  /\ Len(fsBefore[TheChange.file]) >= 2

\* C7 as claimed: fast patcher, no declaration its patterns recognize: the
\* call fails and nothing is written, not even an import line.
C7_FastTargetNotFound ==
  (/\ patcher = "fast"
   /\ patchRuns >= 1
   /\ ~FastRecognizes(fsBefore[TheChange.file], TheChange))
  => /\ patchStatus = "returned"
     /\ patchResult.success = FALSE
     /\ fs = fsBefore

\* the place of the single declaration line in a patched file
DeclarationIndex(content, functionName) ==
  CHOOSE k \in DeclarationLines(content, functionName) : TRUE

\* the snippet stands directly after the declaration line
SnippetFollowsDeclaration(content, codeChange) ==
  LET d    == DeclarationIndex(content, codeChange.function)
      body == generateExperimentFunction(content[d], codeChange, contract)
  IN /\ d + Len(body) - 1 <= Len(content)
     /\ SubSeq(content, d, d + Len(body) - 1) = body

\* what C8 promises of a returned call
PatchedAsPromised ==
  LET orig == fsBefore[TheChange.file]
      out  == fs[TheChange.file]
  IN /\ patchResult.success = TRUE
     /\ Cardinality(DeclarationLines(out, TheChange.function)) = 1
     /\ SnippetFollowsDeclaration(out, TheChange)
     /\ IsSubsequence(orig, out)
     /\ Len(out) <= Len(orig) + 15 + 2
     /\ ModuleImportCount(out) = 1

C8_Case ==
  /\ patcher = "scan"
  /\ patchRuns >= 1
  /\ Cardinality(DeclarationLines(fsBefore[TheChange.file], TheChange.function)) = 1
  /\ ModuleImportCount(fsBefore[TheChange.file]) <= 1

\* C8 as claimed: patching a file with a recognized declaration line returns
\* success and writes the original with the snippet directly after that
\* line, every other line kept in order, and the module import present
\* exactly once (added if the file did not have it).
C8_PatchInsertsSnippet ==
  C8_Case => (patchStatus = "returned" /\ PatchedAsPromised)

\* what the code does keep of C8: every call that returns is as promised
C8_ReturnedCallsAsPromised ==
  (C8_Case /\ patchStatus = "returned") => PatchedAsPromised

\* the file is one the patcher in use recognizes the declaration in
C9_Case ==
  \/ /\ patcher = "scan"
     /\ Cardinality(DeclarationLines(fsInitial[TheChange.file], TheChange.function)) = 1
  \/ /\ patcher = "fast"
     /\ FastRecognizes(fsInitial[TheChange.file], TheChange)

\* C9: patching is not idempotent: every further application of the same
\* change to the patched file succeeds and inserts one more copy of the
\* snippet, so after n applications the file holds n copies.
C9_NotIdempotent ==
  (C9_Case /\ patchStatus = "returned")
  => /\ patchResult.success = TRUE
     /\ patchSuccesses = patchRuns
     /\ SnippetCount(fs[TheChange.file]) = patchRuns

C9_Witness ==
  /\ C9_Case
  /\ patchStatus = "returned"
  /\ patchRuns = 2
  /\ SnippetCount(fsBefore[TheChange.file]) = 1
  /\ SnippetCount(fs[TheChange.file]) = 2

\* C10 as claimed: a file that already imports the experiment-access module
\* gets no further import line of that module, whatever the number of runs.
C10_NoDuplicateImport ==
  (/\ patchRuns >= 1
   /\ ModuleImportCount(fsInitial[TheChange.file]) >= 1)
  => ModuleImportCount(fs[TheChange.file]) = ModuleImportCount(fsInitial[TheChange.file])

\* the line-scanning patcher alone keeps C10
C10_ScanNoDuplicateImport ==
  (/\ patcher = "scan"
   /\ patchRuns >= 1
   /\ ModuleImportCount(fsInitial[TheChange.file]) >= 1)
  => ModuleImportCount(fs[TheChange.file]) = ModuleImportCount(fsInitial[TheChange.file])

\* --------------------------------------------------- rollback (RollbackSpec)
MaxRollbackOps ==
  4

\* CodeGenerator.createRollback(filePath, originalContent): the content handed
\* in is written to `<filePath>.rollback`
createRollback(fsv, rfs, file, originalContent) ==
  [fs |-> fsv, rollback |-> [rfs EXCEPT ![file] = originalContent], threw |-> FALSE]

\* a restore that leaves the sidecar in place
restoreFromRollbackKeepSidecar(fsv, rfs, file) ==
  IF rfs[file] # NoFile
    THEN [fs |-> [fsv EXCEPT ![file] = rfs[file]], rollback |-> rfs, threw |-> FALSE]
    ELSE [fs |-> fsv, rollback |-> rfs, threw |-> TRUE]

\* CodeGenerator.restoreFromRollback(filePath)
restoreFromRollback(fsv, rfs, file) ==
  IF rfs[file] # NoFile
    THEN [fs |-> [fsv EXCEPT ![file] = rfs[file]],
          rollback |-> [rfs EXCEPT ![file] = NoFile],
          threw |-> FALSE]
    ELSE [fs |-> fsv, rollback |-> rfs, threw |-> TRUE]

\* contents a file takes in the rollback runs
RollbackContents ==
  { << <<"import", "React", "from", "'react'", ";">> >>,
    << <<"export", "const", "Button", "=", "(", "props", ")", "=>", "{">>, <<"}">> >>,
    << <<>> >> }

RollbackFileNames ==
  {"Button.tsx", "notes.md"}

RollbackInit ==
  /\ \E name \in RollbackFileNames, content \in RollbackContents :
       fs = [f \in FileNames |-> IF f = name THEN content ELSE NoFile]
  /\ contract = [experimentKey |-> ExperimentKey,
                 codeChanges |-> <<[file |-> "Button.tsx", function |-> "Button",
                                    parameterUsage |-> ParameterName]>>,
                 branchName |-> <<"e", "x", "p", "/", "b", "t", "n">>,
                 waitForDeployment |-> FALSE, autoStart |-> FALSE]
  /\ patcher = "none"
  /\ fsInitial = fs
  /\ fsBefore = fs
  /\ PatchIdle
  /\ RunOff
  /\ AuxOff

RollbackEntry(op, file, arg, r) ==
  [op |-> op, file |-> file, arg |-> arg, threw |-> r.threw,
   fileBefore |-> fs[file], fileAfter |-> r.fs[file],
   sidecarBefore |-> rollbackFs[file], sidecarAfter |-> r.rollback[file]]

RollbackStep(op, file, arg, r) ==
  /\ Len(rbLog) < MaxRollbackOps
  /\ fs' = r.fs
  /\ rollbackFs' = r.rollback
  /\ rbLog' = Append(rbLog, RollbackEntry(op, file, arg, r))
  /\ UNCHANGED <<contract, patchVars, runVars, poll, val, contractFileVars,
                 preflightVars, surfaceVars>>

\* createRollback(file, content): the caller hands in the content it read
\* from the file, or one it kept from before
CreateRollback ==
  \E file \in RollbackFileNames, content \in RollbackContents :
    /\ fs[file] # NoFile
    /\ RollbackStep("create", file, content,
                    createRollback(fs, rollbackFs, file, content))

\* the file is rewritten by a patcher or by hand
ModifyFile ==
  \E file \in RollbackFileNames, content \in RollbackContents :
    /\ fs[file] # NoFile
    /\ content # fs[file]
    /\ RollbackStep("modify", file, content,
                    [fs |-> [fs EXCEPT ![file] = content],
                     rollback |-> rollbackFs, threw |-> FALSE])

RestoreFromRollback ==
  \E file \in RollbackFileNames :
    /\ Len(rbLog) < MaxRollbackOps
    /\ RollbackStep("restore", file, <<>>, restoreFromRollback(fs, rollbackFs, file))

RollbackNext ==
  \/ CreateRollback
  \/ ModifyFile
  \/ RestoreFromRollback

RollbackSpec ==
  RollbackInit /\ [][RollbackNext]_vars

\* entry i of the log copies the current content of its file, and entry j is
\* the next create or restore on that file
RoundTrip(i, j) ==
  /\ i < j
  /\ rbLog[i].op = "create"
  /\ rbLog[i].arg = rbLog[i].fileBefore
  /\ rbLog[j].op = "restore"
  /\ rbLog[j].file = rbLog[i].file
  /\ \A k \in (i + 1)..(j - 1) :
       rbLog[k].file = rbLog[i].file => rbLog[k].op = "modify"

\* C11: a rollback copy of the current content followed by a restore, with
\* any edits of the file in between, gives the file the content it had when
\* the copy was made and removes the sidecar; a restore with no sidecar
\* throws and leaves the file as it was.
C11_RollbackRoundTrip ==
  /\ \A i, j \in 1..Len(rbLog) :
       RoundTrip(i, j)
       => /\ ~rbLog[j].threw
          /\ rbLog[j].fileAfter = rbLog[i].fileBefore
          /\ rbLog[j].sidecarAfter = NoFile
  /\ \A j \in 1..Len(rbLog) :
       (rbLog[j].op = "restore" /\ rbLog[j].sidecarBefore = NoFile)
       => /\ rbLog[j].threw
          /\ rbLog[j].fileAfter = rbLog[j].fileBefore

C11_Witness ==
  /\ Len(rbLog) = 4
  /\ RoundTrip(1, 3)
  /\ rbLog[2].op = "modify"
  /\ rbLog[2].file = rbLog[1].file
  /\ rbLog[3].fileBefore # rbLog[1].fileBefore
  /\ rbLog[4].op = "restore"
  /\ rbLog[4].file = rbLog[1].file
  /\ rbLog[4].threw

\* ----------------------------------------- deployment polling (PollSpec)
\* Time is counted in seconds.
MaxPollTimeout ==
  11

MaxFetchLatency ==
  2

\* const pollInterval = 5000
PollInterval ==
  5

TimeoutError ==
  "Deployment timeout - deployment did not complete within the specified time"

\* what one status request can come to: fetch rejects, the response is not
\* ok, or the body carries a deployment state with or without an error text
PollResponses ==
  { [kind |-> "throw", state |-> "", error |-> "fetch failed"],
    [kind |-> "notok", state |-> "", error |-> "Failed to get deployment status"] }
  \cup { [kind |-> "body", state |-> st, error |-> ""] :
           st \in {"BUILDING", "READY", "ERROR", "CANCELED"} }
  \cup { [kind |-> "body", state |-> st, error |-> "Build failed"] :
           st \in {"ERROR", "CANCELED"} }

PollFailure(message) ==
  [success |-> FALSE, hasDeployment |-> FALSE, url |-> <<>>, error |-> message]

\* a loop body that takes every state but ERROR and CANCELED for success
PollBodyNotFailedIsReady(response) ==
  CASE response.kind # "body" ->
         [kind |-> "return", exit |-> "request", result |-> PollFailure(response.error)]
    [] response.state \in {"ERROR", "CANCELED"} ->
         [kind |-> "return", exit |-> "failed",
          result |-> PollFailure(IF response.error # "" THEN response.error
                                 ELSE IF response.state = "ERROR" THEN "Deployment error"
                                 ELSE "Deployment canceled")]
    [] OTHER ->
         [kind |-> "return", exit |-> "ready",
          result |-> [success |-> TRUE, hasDeployment |-> TRUE,
                      url |-> DeploymentUrl, error |-> ""]]

\* the body of the while loop of pollDeployment, from the response on:
\* return a result, or sleep and go round again
PollBody(response) ==
  CASE response.kind # "body" ->
         [kind |-> "return", exit |-> "request", result |-> PollFailure(response.error)]
    [] response.state = "READY" ->
         [kind |-> "return", exit |-> "ready",
          result |-> [success |-> TRUE, hasDeployment |-> TRUE,
                      url |-> DeploymentUrl, error |-> ""]]
    [] response.state \in {"ERROR", "CANCELED"} ->
         [kind |-> "return", exit |-> "failed",
          result |-> PollFailure(IF response.error # "" THEN response.error
                                 ELSE IF response.state = "ERROR" THEN "Deployment error"
                                 ELSE "Deployment canceled")]
    [] OTHER -> [kind |-> "sleep"]

\* while (Date.now() - startTime < timeoutMs)
PollLoopCondition(now, startTime, timeoutMs) ==
  now - startTime < timeoutMs

PollInit ==
  /\ fs = [f \in FileNames |-> NoFile]
  /\ contract = [experimentKey |-> ExperimentKey,
                 codeChanges |-> <<[file |-> "Button.tsx", function |-> "Button",
                                    parameterUsage |-> ParameterName]>>,
                 branchName |-> <<"e", "x", "p", "/", "b", "t", "n">>,
                 waitForDeployment |-> TRUE, autoStart |-> FALSE]
  /\ patcher = "none"
  /\ fsInitial = fs
  /\ fsBefore = fs
  /\ PatchIdle
  /\ RunOff
  /\ AuxOff

PollFrame ==
  UNCHANGED <<fs, contract, patchVars, runVars, rollbackVars, val, contractFileVars,
              preflightVars, surfaceVars>>

\* pollDeployment(deploymentId, timeoutMs) is called
PollCall ==
  /\ poll.pc = "idle"
  /\ \E timeoutMs \in 0..MaxPollTimeout, clock \in 0..1 :
       poll' = [poll EXCEPT !.pc = "check", !.now = clock, !.startTime = clock,
                            !.timeoutMs = timeoutMs]
  /\ PollFrame

\* the loop condition is evaluated
PollCheck ==
  /\ poll.pc = "check"
  /\ poll' = IF PollLoopCondition(poll.now, poll.startTime, poll.timeoutMs)
               THEN [poll EXCEPT !.pc = "fetch"]
               ELSE [poll EXCEPT !.pc = "done", !.exit = "timeout",
                                 !.result = PollFailure(TimeoutError)]
  /\ PollFrame

\* await fetch(...) settles after some latency and the response is handled
PollFetch ==
  /\ poll.pc = "fetch"
  /\ \E latency \in 0..MaxFetchLatency, response \in PollResponses :
       LET b == PollBody(response)
       IN poll' = IF b.kind = "return"
                    THEN [poll EXCEPT !.pc = "done", !.now = poll.now + latency,
                                      !.requests = Append(poll.requests, response),
                                      !.exit = b.exit, !.result = b.result]
                    ELSE [poll EXCEPT !.pc = "sleep", !.now = poll.now + latency,
                                      !.requests = Append(poll.requests, response)]
  /\ PollFrame

\* await new Promise(resolve => setTimeout(resolve, pollInterval))
PollSleep ==
  /\ poll.pc = "sleep"
  /\ poll' = [poll EXCEPT !.pc = "check", !.now = poll.now + PollInterval,
                          !.sleeps = poll.sleeps + 1]
  /\ PollFrame

PollNext ==
  \/ PollCall
  \/ PollCheck
  \/ PollFetch
  \/ PollSleep

PollSpec ==
  PollInit /\ [][PollNext]_vars

\* every status request so far was answered, with state BUILDING
OnlyBuilding ==
  \A r \in 1..Len(poll.requests) :
    poll.requests[r].kind = "body" /\ poll.requests[r].state = "BUILDING"

PollElapsed ==
  poll.now - poll.startTime

\* C12 as claimed: the deployment stays in BUILDING; the call returns the
\* timeout failure, not before timeoutMs has elapsed and at most one poll
\* interval after it.
C12_PollTimeoutBound ==
  (poll.pc = "done" /\ OnlyBuilding)
  => /\ ~poll.result.success
     /\ poll.result.error = TimeoutError
     /\ PollElapsed >= poll.timeoutMs
     /\ PollElapsed <= poll.timeoutMs + PollInterval

\* what holds of C12: the timeout failure, never early, and late by at most
\* one poll interval plus the time the status requests took
C12_PollTimeoutNotEarly ==
  (poll.pc = "done" /\ OnlyBuilding)
  => /\ ~poll.result.success
     /\ poll.result.error = TimeoutError
     /\ PollElapsed >= poll.timeoutMs
     /\ PollElapsed <= poll.timeoutMs + PollInterval + MaxFetchLatency

LastRequest ==
  poll.requests[Len(poll.requests)]

\* the three exits of the claim
PollExitReady ==
  /\ poll.result.success
  /\ poll.result.url = DeploymentUrl
  /\ poll.requests # <<>>
  /\ LastRequest.kind = "body" /\ LastRequest.state = "READY"

PollExitFailedRemoteMessage ==
  /\ ~poll.result.success
  /\ poll.requests # <<>>
  /\ LastRequest.kind = "body" /\ LastRequest.state \in {"ERROR", "CANCELED"}
  /\ LastRequest.error # ""
  /\ poll.result.error = LastRequest.error

PollExitTimeout ==
  /\ ~poll.result.success
  /\ poll.result.error = TimeoutError
  /\ PollElapsed >= poll.timeoutMs

\* the exits the claim leaves out: ERROR or CANCELED with no error text in
\* the response, and a status request that failed
PollExitFailedDefaultMessage ==
  /\ ~poll.result.success
  /\ poll.requests # <<>>
  /\ LastRequest.kind = "body" /\ LastRequest.state \in {"ERROR", "CANCELED"}
  /\ LastRequest.error = ""
  /\ poll.result.error = (IF LastRequest.state = "ERROR" THEN "Deployment error"
                          ELSE "Deployment canceled")

PollExitRequestFailed ==
  /\ ~poll.result.success
  /\ poll.requests # <<>>
  /\ LastRequest.kind \in {"throw", "notok"}
  /\ poll.result.error = LastRequest.error

\* one sleep of the poll interval lies between consecutive status requests,
\* and every request before the last found the deployment unfinished
PollFixedInterval ==
  /\ poll.sleeps = (IF poll.pc = "sleep" \/ (poll.pc = "done" /\ poll.exit # "timeout")
                     THEN Len(poll.requests) - 1
                     ELSE Len(poll.requests))
  /\ PollElapsed >= poll.sleeps * PollInterval
  /\ \A r \in 1..(Len(poll.requests) - 1) :
       poll.requests[r].kind = "body" /\ poll.requests[r].state = "BUILDING"

\* C13 as claimed: the call returns only on READY (success with the URL), on
\* ERROR or CANCELED (failure carrying the remote error message) or on
\* timeout (failure with the timeout error).
C13_PollThreeExits ==
  poll.pc = "done"
  => \/ PollExitReady
     \/ PollExitFailedRemoteMessage
     \/ PollExitTimeout

\* C13 amended: status requests are one poll interval apart, and the call
\* returns only on READY (success with the URL), on ERROR or CANCELED
\* (failure carrying the remote error message, or `Deployment error` /
\* `Deployment canceled` when the response has none), on a failed status
\* request (failure carrying that request's error) or on timeout (failure
\* with the timeout error); success is returned only after READY was seen.
C13_PollExits ==
  /\ poll.pc # "idle" => PollFixedInterval
  /\ poll.pc = "done"
     => /\ \/ PollExitReady
           \/ PollExitFailedRemoteMessage
           \/ PollExitFailedDefaultMessage
           \/ PollExitRequestFailed
           \/ PollExitTimeout
        /\ poll.result.success => PollExitReady

C13_Witness ==
  /\ poll.pc = "done"
  /\ poll.sleeps = 2
  /\ Len(poll.requests) = 3
  /\ PollExitRequestFailed

\* ------------------------------------- contract validation (ValidateSpec)
\* code change entries of raw contracts: a valid one, one with no function
\* name, one with neither file nor parameter
RawCodeChanges ==
  { [file |-> "Button.tsx", function |-> "Button", parameterUsage |-> ParameterName],
    [file |-> "Button.tsx", function |-> "", parameterUsage |-> ParameterName],
    [file |-> "", function |-> "Button", parameterUsage |-> ""] }

RECURSIVE RawChangeLists(_)
RawChangeLists(n) ==
  IF n = 0 THEN { <<>> }
  ELSE RawChangeLists(n - 1)
         \cup { Append(l, cc) : l \in { m \in RawChangeLists(n - 1) : Len(m) = n - 1 },
                                cc \in RawCodeChanges }

RawBranchNames ==
  { <<"e", "x", "p", "/", "b", "t", "n">>,
    <<"e", "x", "p", "/", "a", "_", "b", "-", "0">>,
    <<"e", "x", "p", "/", "A">>,
    <<"E", "X", "P", "/", "a">>,
    <<"e", "x", "p", "/">>,
    <<"e", "x", "p", "/", "a", " ", "b">>,
    <<"x", "e", "x", "p", "/", "a">>,
    <<"m", "a", "i", "n">> }

\* contract data as parsed from the JSON file
RawContracts ==
  { [experimentKey |-> key, name |-> name, variants |-> v, codeChanges |-> changes,
     branchName |-> branch, waitForDeployment |-> TRUE, autoStart |-> FALSE] :
      key \in {"", ExperimentKey}, name \in {"", "Prime banner"},
      v \in 0..MaxVariants, changes \in RawChangeLists(MaxContractChanges),
      branch \in RawBranchNames }

ValidateInit ==
  /\ fs = [f \in FileNames |-> NoFile]
  /\ contract = [experimentKey |-> ExperimentKey,
                 codeChanges |-> <<[file |-> "Button.tsx", function |-> "Button",
                                    parameterUsage |-> ParameterName]>>,
                 branchName |-> <<"e", "x", "p", "/", "b", "t", "n">>,
                 waitForDeployment |-> TRUE, autoStart |-> FALSE]
  /\ patcher = "none"
  /\ fsInitial = fs
  /\ fsBefore = fs
  /\ PatchIdle
  /\ RunOff
  /\ AuxOff

\* validateContract(raw) is called
Validate ==
  /\ val.pc = "idle"
  /\ \E raw \in RawContracts :
       LET r == validateContract(raw)
       IN val' = [pc |-> "done", raw |-> raw, ok |-> r.ok,
                  issues |-> r.issues, lines |-> r.lines]
  /\ UNCHANGED <<fs, contract, patchVars, runVars, rollbackVars, poll, contractFileVars,
                 preflightVars, surfaceVars>>

ValidateNext ==
  \/ Validate

ValidateSpec ==
  ValidateInit /\ [][ValidateNext]_vars

\* some line of the error message holds the word
LinesMention(word) ==
  \E i \in 1..Len(val.lines) : \E t \in 1..Len(val.lines[i]) : val.lines[i][t] = word

\* C18 as claimed: contracts with fewer than 2 variants fail with an error
\* mentioning "variants", contracts whose branch name does not match
\* exp/[a-z0-9_-]+ fail, contracts with no code change fail.
C18_ValidateRejects ==
  val.pc = "done"
  => /\ val.raw.variants < 2 => (~val.ok /\ LinesMention("variants"))
     /\ ~MatchesBranchPatternCaseSensitive(val.raw.branchName) => ~val.ok
     /\ Len(val.raw.codeChanges) = 0 => ~val.ok

\* C18 amended: the branch name is matched without regard to case; a
\* contract that validate returns has at least 2 variants, at least one code
\* change and a branch name matching exp/[a-z0-9_-]+ in either case.
C18_ValidateRejectsIgnoringCase ==
  val.pc = "done"
  => /\ val.raw.variants < 2 => (~val.ok /\ LinesMention("variants"))
     /\ ~MatchesBranchPattern(val.raw.branchName) => ~val.ok
     /\ Len(val.raw.codeChanges) = 0 => ~val.ok
     /\ val.ok => /\ val.raw.variants >= 2
                  /\ Len(val.raw.codeChanges) >= 1
                  /\ MatchesBranchPattern(val.raw.branchName)

C18_Witness ==
  /\ val.pc = "done"
  /\ val.raw.variants = 1
  /\ ~val.ok
  /\ LinesMention("variants")
  /\ val.raw.branchName = <<"e", "x", "p", "/", "A">>
  /\ Len(val.lines) = 1

\* the field paths of raw whose constraint is violated
ViolatedPaths(raw) ==
  (IF raw.experimentKey = "" THEN { <<"experimentKey">> } ELSE {})
  \cup (IF raw.name = "" THEN { <<"name">> } ELSE {})
  \cup (IF raw.variants < 2 THEN { <<"variants">> } ELSE {})
  \cup (IF Len(raw.codeChanges) = 0 THEN { <<"codeChanges">> } ELSE {})
  \cup { <<"codeChanges", ToString(k - 1), "file">> :
           k \in { j \in 1..Len(raw.codeChanges) : raw.codeChanges[j].file = "" } }
  \cup { <<"codeChanges", ToString(k - 1), "function">> :
           k \in { j \in 1..Len(raw.codeChanges) : raw.codeChanges[j].function = "" } }
  \cup { <<"codeChanges", ToString(k - 1), "parameterUsage">> :
           k \in { j \in 1..Len(raw.codeChanges) :
                     raw.codeChanges[j].parameterUsage = "" } }
  \cup (IF ~MatchesBranchPattern(raw.branchName)
          THEN { <<"branchConfig", "branchName">> } ELSE {})

\* the lines of the validation error that report the field path
LinesFor(path) ==
  { i \in 1..Len(val.lines) :
      /\ StartsWith(val.lines[i], JoinPath(path) \o <<":">>)
      /\ Len(val.lines[i]) = Len(JoinPath(path)) + 2 }

\* validate reports every violated field, on a line of its own
ValidateListsEveryViolation ==
  val.pc = "done"
  => /\ val.ok <=> ViolatedPaths(val.raw) = {}
     /\ Len(val.lines) = Cardinality(ViolatedPaths(val.raw))
     /\ \A path \in ViolatedPaths(val.raw) : Cardinality(LinesFor(path)) = 1

\* applyCodeChanges is over
ApplyCodeChangesOver ==
  Started("ApplyCodeChanges") /\ ~Running("ApplyCodeChanges")

OneResultPerEntry ==
  /\ Len(codeResults) = Len(contract.codeChanges)
  /\ \A k \in 1..Len(codeResults) : codeResults[k].file = contract.codeChanges[k].file

\* C19 as claimed: validate reports each of the k violated fields on a line
\* `<field path>: <message>`, and applyCodeChanges attempts every entry and
\* returns one result per entry, in contract order.
C19_ErrorsCollected ==
  /\ ValidateListsEveryViolation
  /\ ApplyCodeChangesOver => OneResultPerEntry

\* what holds of C19: the validation half, and one result per entry whenever
\* applyCodeChanges returns
C19_ReturnedResultsPerEntry ==
  /\ ValidateListsEveryViolation
  /\ (ApplyCodeChangesOver /\ pc # "Hung") => OneResultPerEntry

\* C20 as claimed: with no contract file at start, loadContract writes the
\* default template, the template validates, the stage succeeds and the run
\* goes on to the branch stage with branch exp/<key>.
C20_SelfBootstrapping ==
  (/\ contractFileInitial = NoContract
   /\ Started("LoadContract")
   /\ ~Running("LoadContract"))
  => /\ contractFile = JsonFile(createDefaultContract(ExperimentKey))
     /\ val.ok
     /\ "LoadContract" \in completed
     /\ contract.branchName = <<"e", "x", "p", "/">> \o ExperimentKeyChars
     /\ pc = "CreateOrCheckoutBranch" \/ Started("CreateOrCheckoutBranch")

\* what holds of C20: the template is written with branch exp/<key>, fails
\* validation on its empty codeChanges and the run exits with code 1
C20_TemplateRejected ==
  (/\ contractFileInitial = NoContract
   /\ Started("LoadContract")
   /\ ~Running("LoadContract"))
  => /\ contractFile = JsonFile(createDefaultContract(ExperimentKey))
     /\ contractFile.data.branchName = <<"e", "x", "p", "/">> \o ExperimentKeyChars
     /\ MatchesBranchPattern(contractFile.data.branchName)
     /\ ~val.ok
     /\ val.lines = << <<"codeChanges", ":", "At least one code change is required">> >>
     /\ failedStage = "LoadContract"
     /\ exitCode = 1

\* ------------------------------------- preflight (PreflightValidator)
MaxPreflightRuns ==
  2

\* the checks of validateExperiment, in the order of its calls
PreflightChecks ==
  <<"contract", "environment", "codeChanges", "statsigConnectivity", "branchState",
    "deployment">>

\* validateExperiment: the statement that follows a check, whatever the check
\* did to the result
PreflightNextCheckStopOnError(check, result) ==
  IF result.errors # <<>> \/ check = "deployment" THEN "finish"
  ELSE PreflightChecks[(CHOOSE i \in 1..6 : PreflightChecks[i] = check) + 1]

PreflightNextCheck(check, result) ==
  IF check = "deployment" THEN "finish"
  ELSE PreflightChecks[(CHOOSE i \in 1..6 : PreflightChecks[i] = check) + 1]

\* validateExperiment: result.success = result.errors.length === 0
PreflightSuccessNoWarnings(result) ==
  result.errors = <<>> /\ result.warnings = <<>>

PreflightSuccess(result) ==
  result.errors = <<>>

\* result.errors.push / result.warnings.push / result.checks.<check> = true
PushError(result, message) ==
  [result EXCEPT !.errors = Append(@, message)]

PushWarning(result, message) ==
  [result EXCEPT !.warnings = Append(@, message)]

PassCheck(result, check) ==
  [result EXCEPT !.checks = [@ EXCEPT ![check] = TRUE]]

\* the message of the error validateContract and JSON.parse throw on a file
ContractFileError(file) ==
  IF file.kind = "absent" THEN <<"ENOENT">>
  ELSE IF file.kind = "garbage" THEN <<"SyntaxError">>
  ELSE <<"Contract validation failed:", NL>> \o JoinLines(validateContract(file.data).lines)

ContractFileThrows(file) ==
  \/ file.kind # "json"
  \/ ~validateContract(file.data).ok

\* PreflightValidator.validateContract
PreflightContract(file, result) ==
  IF file.kind = "absent"
    THEN PushError(result, <<"Contract file not found:", ExperimentKey>>)
  ELSE IF ContractFileThrows(file)
    THEN PushError(result, <<"Contract validation failed:">> \o ContractFileError(file))
  ELSE LET r1 == IF file.data.variants < 2
                   THEN PushError(result, <<"Contract must have at least 2 variants">>)
                   ELSE result
           r2 == IF file.data.codeChanges = <<>>
                   THEN PushError(r1, <<"Contract must specify code changes to implement">>)
                   ELSE r1
       IN IF r2.errors = <<>> THEN PassCheck(r2, "contract") ELSE r2

\* what validateEnvironment() of env-validator hands back: a result with
\* success, errors and warnings, or an exception
EnvResults ==
  { [threw |-> FALSE, success |-> TRUE, errors |-> <<>>, warnings |-> <<>>],
    [threw |-> FALSE, success |-> TRUE, errors |-> <<>>,
     warnings |-> << <<"NEXT_PUBLIC_STATSIG_TIER not set">> >>],
    [threw |-> FALSE, success |-> FALSE,
     errors |-> << <<"Missing required environment variables">> >>,
     warnings |-> <<>>],
    [threw |-> TRUE, success |-> FALSE, errors |-> <<>>, warnings |-> <<>>] }

\* PreflightValidator.validateEnvironment
PreflightEnvironment(envResult, result) ==
  IF envResult.threw
    THEN PushError(result, <<"Environment validation failed:", "Unknown error">>)
  ELSE LET r1 == IF ~envResult.success
                   THEN [result EXCEPT !.errors = @ \o envResult.errors]
                   ELSE result
           r2 == IF Len(envResult.warnings) > 0
                   THEN [r1 EXCEPT !.warnings = @ \o envResult.warnings]
                   ELSE r1
       IN IF envResult.success THEN PassCheck(r2, "environment") ELSE r2

\* validateCodeChanges: functionPatterns.some(p => fileContent.includes(p))
PreflightFunctionExists(content, functionName) ==
  \E k \in 1..Len(TargetPatterns(functionName)) :
    ContentIncludes(content, TargetPatterns(functionName)[k])

\* validateCodeChanges: the loop over contract.codeChanges, from entry k on
RECURSIVE PreflightCodeChangesFrom(_, _, _, _)
PreflightCodeChangesFrom(changes, k, files, result) ==
  IF k > Len(changes) THEN result
  ELSE LET cc == changes[k]
           r == IF files[cc.file] = NoFile
                  THEN PushError(result, <<"Target file not found:", cc.file>>)
                ELSE IF ~PreflightFunctionExists(files[cc.file], cc.function)
                  THEN PushError(result, <<"Function/component not found:", cc.function,
                                           cc.file>>)
                ELSE result
       IN PreflightCodeChangesFrom(changes, k + 1, files, r)

\* PreflightValidator.validateCodeChanges
PreflightCodeChanges(file, files, result) ==
  IF ContractFileThrows(file)
    THEN PushError(result, <<"Code changes validation failed:">> \o ContractFileError(file))
  ELSE LET r == PreflightCodeChangesFrom(file.data.codeChanges, 1, files, result)
       IN IF r.errors = <<>> THEN PassCheck(r, "codeChanges") ELSE r

\* validateCodeChanges: what the detection says of each entry whose file exists
PreflightDetections(file, files) ==
  IF ContractFileThrows(file) THEN <<>>
  ELSE [ k \in 1..Len(file.data.codeChanges) |->
           LET cc == file.data.codeChanges[k]
           IN [change |-> cc,
               exists |-> files[cc.file] # NoFile,
               found |-> /\ files[cc.file] # NoFile
                         /\ PreflightFunctionExists(files[cc.file], cc.function)] ]

\* what mcpClient.listExperiments() hands back
ListResults ==
  {"success", "failure", "threw"}

\* PreflightValidator.validateStatsigConnectivity
PreflightStatsigConnectivity(listResult, result) ==
  IF listResult = "success" THEN PassCheck(result, "statsigConnectivity")
  ELSE IF listResult = "failure"
    THEN PushError(result, <<"Statsig connectivity failed:", "MCP error">>)
  ELSE PushError(result, <<"Statsig connectivity test failed:", "Unknown error">>)

\* the experiment branch of validateBranchState, exp/<experimentKey>
ExperimentBranch ==
  "exp"

\* git fetch origin: every remote-tracking ref is moved to the remote's commit
GitFetchKeepsRefs(repo) ==
  repo

GitFetch(repo) ==
  [repo EXCEPT !.tracking = repo.origin]

\* PreflightValidator.validateBranchState; gitWorks: the two git queries run,
\* fetchWorks: git fetch exits zero
PreflightBranchState(repo, gitWorks, fetchWorks, result) ==
  IF ~gitWorks
    THEN PushError(result, <<"Branch state validation failed:", "Unknown error">>)
  ELSE LET r1 == IF repo.branch # ExperimentBranch
                   THEN PushWarning(result, <<"Not on experiment branch">>)
                   ELSE result
           r2 == IF repo.dirty
                   THEN PushWarning(r1, <<"Branch has uncommitted changes">>)
                   ELSE r1
           fetched == GitFetch(repo)
           r3 == IF ~fetchWorks \/ fetched.head = "none" \/ fetched.tracking = "none"
                   THEN PushWarning(r2, <<"Could not check remote branch status">>)
                 ELSE IF fetched.head # fetched.tracking
                   THEN PushWarning(r2, <<"Branch is not up to date with remote">>)
                 ELSE r2
       IN PassCheck(r3, "branchState")

\* what npm run build and npm run lint do: exit zero, exit non-zero, or run
\* past the timeout
CommandResults ==
  {"ok", "failed", "timeout"}

\* PreflightValidator.validateDeploymentReadiness
PreflightDeploymentReadiness(buildResult, lintResult, result) ==
  IF buildResult = "ok" /\ lintResult = "ok" THEN PassCheck(result, "deployment")
  ELSE PushError(result, <<"Deployment readiness failed:",
                           IF buildResult # "ok" THEN "npm run build" ELSE "npm run lint">>)

\* ---- inputs
PreflightButtonFiles ==
  { NoFile,
    << <<"import", "React", "from", "'react'", ";">>,
       <<"export", "const", "Button", "=", "(", "props", ")", "=>", "{">>,
       <<"}">> >>,
    << <<"export", "async", "function", "Button", "(", ")", "{">>,
       <<"}">> >>,
    << <<"import", "React", "from", "'react'", ";">>,
       <<"}">> >> }

PreflightCardFiles ==
  { NoFile,
    << <<WS, "function", "ProductCard", "(", ")", "{">>, <<"}">> >> }

PreflightCodeChangeLists ==
  { << [file |-> "Button.tsx", function |-> "Button", parameterUsage |-> ParameterName] >>,
    << [file |-> "ProductCard.tsx", function |-> "ProductCard",
        parameterUsage |-> ParameterName],
       [file |-> "Button.tsx", function |-> "Button", parameterUsage |-> ParameterName] >> }

PreflightContractFiles ==
  {NoContract, BadJson}
    \cup { JsonFile([experimentKey |-> ExperimentKey, name |-> "Prime banner",
                     variants |-> 2, codeChanges |-> changes,
                     branchName |-> <<"e", "x", "p", "/", "b", "t", "n">>,
                     waitForDeployment |-> TRUE, autoStart |-> FALSE]) :
             changes \in PreflightCodeChangeLists }
    \cup { JsonFile(createDefaultContract(ExperimentKey)) }

\* local repository states: current branch, dirty working tree, head of the
\* experiment branch, remote-tracking ref origin/<branch>, the remote's commit
PreflightRepos ==
  { r \in [branch : {"main", ExperimentBranch}, dirty : BOOLEAN, head : {"none", "c1"},
            tracking : {"none", "c1"}, origin : {"c1", "c2"}] :
      r.dirty <=> r.branch = ExperimentBranch }

NoPreflightSnapshot ==
  [kind |-> "none"]

\* everything a preflight run could touch
PreflightSnapshot ==
  [kind |-> "snapshot", fs |-> fs, contractFile |-> contractFile, git |-> git,
   buildOutput |-> buildOutput, experiment |-> experiment]

PreflightInit ==
  /\ fs \in { [f \in FileNames |->
                 IF f = "Button.tsx" THEN b ELSE IF f = "ProductCard.tsx" THEN c ELSE NoFile] :
              b \in PreflightButtonFiles, c \in PreflightCardFiles }
  /\ contract = UnloadedContract
  /\ patcher = "none"
  /\ fsInitial = fs
  /\ fsBefore = fs
  /\ PatchIdle
  /\ RunOff
  /\ RollbackOff
  /\ PollOff
  /\ ValidateOff
  /\ SurfaceOff
  /\ contractFile \in PreflightContractFiles
  /\ contractFileInitial = contractFile
  /\ git \in PreflightRepos
  /\ buildOutput = "none"
  /\ pre = [pc |-> "idle", runs |-> 0, ran |-> <<>>, found |-> <<>>, added |-> {},
            result |-> NewPreflightResult]
  /\ preSnap = NoPreflightSnapshot

PreflightFrame ==
  UNCHANGED <<fs, contract, patchVars, runVars, rollbackVars, poll, val, contractFileVars,
              surfaceVars>>

\* a check has run: it is recorded, with whether it pushed an error, and
\* control moves to the next statement
AfterCheck(check, result) ==
  [pre EXCEPT !.pc = PreflightNextCheck(check, result),
              !.ran = Append(@, check),
              !.added = IF Len(result.errors) > Len(pre.result.errors)
                          THEN @ \cup {check} ELSE @,
              !.result = result]

\* validateExperiment(experimentKey) is called
PreflightStart ==
  /\ pre.pc \in {"idle", "done"}
  /\ pre.runs < MaxPreflightRuns
  /\ pre' = [pc |-> "contract", runs |-> pre.runs + 1, ran |-> <<>>, found |-> <<>>,
             added |-> {}, result |-> NewPreflightResult]
  /\ preSnap' = IF preSnap = NoPreflightSnapshot THEN PreflightSnapshot ELSE preSnap
  /\ UNCHANGED <<git, buildOutput>>
  /\ PreflightFrame

CheckContract ==
  /\ pre.pc = "contract"
  /\ pre' = AfterCheck("contract", PreflightContract(contractFile, pre.result))
  /\ UNCHANGED <<git, buildOutput, preSnap>>
  /\ PreflightFrame

CheckEnvironment ==
  /\ pre.pc = "environment"
  /\ \E envResult \in EnvResults :
       pre' = AfterCheck("environment", PreflightEnvironment(envResult, pre.result))
  /\ UNCHANGED <<git, buildOutput, preSnap>>
  /\ PreflightFrame

CheckCodeChanges ==
  /\ pre.pc = "codeChanges"
  /\ pre' = [AfterCheck("codeChanges", PreflightCodeChanges(contractFile, fs, pre.result))
               EXCEPT !.found = PreflightDetections(contractFile, fs)]
  /\ UNCHANGED <<git, buildOutput, preSnap>>
  /\ PreflightFrame

CheckStatsigConnectivity ==
  /\ pre.pc = "statsigConnectivity"
  /\ \E listResult \in ListResults :
       pre' = AfterCheck("statsigConnectivity",
                         PreflightStatsigConnectivity(listResult, pre.result))
  /\ UNCHANGED <<git, buildOutput, preSnap>>
  /\ PreflightFrame

CheckBranchState ==
  /\ pre.pc = "branchState"
  /\ \E gitWorks \in BOOLEAN, fetchWorks \in BOOLEAN :
       /\ pre' = AfterCheck("branchState",
                            PreflightBranchState(git, gitWorks, fetchWorks, pre.result))
       /\ git' = IF gitWorks /\ fetchWorks THEN GitFetch(git) ELSE git
  /\ UNCHANGED <<buildOutput, preSnap>>
  /\ PreflightFrame

\* npm run build leaves its output in the build directory when it exits zero;
\* lint runs only after a build that did
CheckDeploymentReadiness ==
  /\ pre.pc = "deployment"
  /\ \E buildResult \in CommandResults, lintResult \in CommandResults :
       /\ buildResult # "ok" => lintResult = "ok"
       /\ pre' = AfterCheck("deployment",
                            PreflightDeploymentReadiness(buildResult, lintResult,
                                                         pre.result))
       /\ buildOutput' = IF buildResult = "ok" THEN "built" ELSE buildOutput
  /\ UNCHANGED <<git, preSnap>>
  /\ PreflightFrame

\* result.success is set and the result returned
PreflightFinish ==
  /\ pre.pc = "finish"
  /\ pre' = [pre EXCEPT !.pc = "done",
                        !.result = [@ EXCEPT !.success = PreflightSuccess(pre.result)]]
  /\ UNCHANGED <<git, buildOutput, preSnap>>
  /\ PreflightFrame

PreflightNext ==
  \/ PreflightStart
  \/ CheckContract
  \/ CheckEnvironment
  \/ CheckCodeChanges
  \/ CheckStatsigConnectivity
  \/ CheckBranchState
  \/ CheckDeploymentReadiness
  \/ PreflightFinish

PreflightSpec ==
  PreflightInit /\ [][PreflightNext]_vars

\* ------------------------------------------- preflight claims (PreflightSpec)
PreflightDone ==
  pre.pc = "done"

\* C14: when a preflight run ends, the reported success is true exactly when
\* the aggregated errors list is empty, whatever the number of warnings.
C14_SuccessIffNoErrors ==
  PreflightDone => (pre.result.success <=> pre.result.errors = <<>>)

C14_Witness ==
  /\ PreflightDone
  /\ pre.result.success
  /\ Len(pre.result.warnings) >= 2
  /\ pre.result.errors = <<>>

\* C15: every preflight run executes the six checks in the order contract,
\* environment, code changes, Statsig connectivity, branch state, deployment
\* readiness: at every moment the checks run so far are a prefix of that list,
\* the run only ends after all six, and an error recorded by an earlier check
\* neither skips a later one nor ends the run.
C15_AllChecksInOrder ==
  /\ Len(pre.ran) <= 6
  /\ pre.ran = SubSeq(PreflightChecks, 1, Len(pre.ran))
  /\ pre.pc \in {"finish", "done"} => pre.ran = PreflightChecks
  /\ (pre.pc \notin {"idle", "finish", "done"}) => pre.pc = PreflightChecks[Len(pre.ran) + 1]

\* a run in which the first check failed and the third threw has ended after
\* all six checks
C15_Witness ==
  /\ PreflightDone
  /\ pre.ran = PreflightChecks
  /\ contractFile = BadJson
  /\ Len(pre.result.errors) >= 5
  /\ ~pre.result.checks.contract
  /\ pre.result.checks.branchState

\* C16: preflight is read-only: once a run has started, the source files, the
\* contract file, the local git state, the build output and the remote
\* experiment are what they were when the first run started.
C16_PreflightReadOnly ==
  preSnap # NoPreflightSnapshot => PreflightSnapshot = preSnap

\* what does hold: source files, contract file and remote experiment stay
C16_PreflightLeavesFilesAndExperiment ==
  preSnap # NoPreflightSnapshot
  => /\ fs = preSnap.fs
     /\ contractFile = preSnap.contractFile
     /\ experiment = preSnap.experiment

\* the line-scanning patcher locates the function: some line is a recognized
\* declaration, and the scan of the file does not end in the not-found error
PatcherLocates(content, codeChange) ==
  /\ DeclarationLines(content, codeChange.function) # {}
  /\ generateModifiedCode(content, codeChange, ParsedContract(contractFile.data))
       # [kind |-> "throw", error |-> NotFoundError(codeChange.function)]

\* C17: for every code change whose file exists, preflight reports the
\* function as found exactly when the line-scanning patcher locates it, so a
\* change that passes the detection does not fail with target-not-found.
C17_PreflightDetectsAsPatcher ==
  \A k \in 1..Len(pre.found) :
    pre.found[k].exists
    => (pre.found[k].found <=> PatcherLocates(fs[pre.found[k].change.file],
                                              pre.found[k].change))

\* what does hold: a function the patcher locates is found by preflight
C17_PatcherLocatedIsDetected ==
  \A k \in 1..Len(pre.found) :
    (pre.found[k].exists /\ PatcherLocates(fs[pre.found[k].change.file],
                                           pre.found[k].change))
    => pre.found[k].found

\* ------------------------------------------------- CLI (ExperimentCLI.run)
\* commands of the switch in run; "bogus" stands for any other word
CliCommands ==
  {"create", "verify", "status", "start", "stop", "preflight", "list", "help",
   "--help", "-h", "bogus"}

\* the key test of run: !experimentKey && command !== 'list'
CliKeyRequired(command, experimentKey) ==
  experimentKey = "" /\ command # "list"

\* what the handler of a command can do: return, throw to run's catch, end the
\* process itself, or never return
CliHandlerOutcomes(command) ==
  CASE command = "create" -> {"returned", "exited 1", "hung"}
    [] command \in {"verify", "status", "start", "stop", "preflight"} -> {"returned", "threw"}
    [] command \in {"list", "help", "--help", "-h"} -> {"returned"}
    [] OTHER -> {"unknown"}

\* what the handler prints last
CliHandlerLog(command, outcome, detail) ==
  CASE command = "create" /\ outcome = "returned" -> <<"Experiment workflow completed successfully!">>
    [] command = "create" -> <<"Experiment workflow failed:">>
    [] command = "verify" /\ outcome = "threw" -> <<"Verification failed:", "Contract file not found">>
    [] command = "verify" -> <<IF detail THEN "Branch exists" ELSE "Branch not found",
                               "Verification completed">>
    [] command = "status" /\ outcome = "threw" -> <<"Failed to get experiment status:">>
    [] command = "status" -> <<"Statsig Status:", IF detail THEN "Branch:" ELSE "Branch not found">>
    [] command = "start" /\ outcome = "threw" -> <<"Failed to start experiment:">>
    [] command = "start" -> <<"Experiment started">>
    [] command = "stop" /\ outcome = "threw" -> <<"Failed to stop experiment:">>
    [] command = "stop" -> <<"Experiment stopped">>
    [] command = "preflight" /\ outcome = "threw" -> <<"Preflight validation failed:">>
    [] command = "preflight" -> <<>>
    [] command = "list" -> <<IF detail THEN "Experiment branches:" ELSE "Could not list git branches">>
    [] command \in {"help", "--help", "-h"} -> <<"Usage:">>
    [] OTHER -> <<"Unknown command:", "Usage:">>

CliInit ==
  /\ fs = [f \in FileNames |-> NoFile]
  /\ contract = UnloadedContract
  /\ patcher = "none"
  /\ fsInitial = fs
  /\ fsBefore = fs
  /\ PatchIdle
  /\ RunOff
  /\ RollbackOff
  /\ PollOff
  /\ ValidateOff
  /\ ContractFileOff
  /\ PreflightOff
  /\ McpOff
  /\ EnvOff
  /\ TrafficOff
  /\ \E command \in CliCommands \cup {""}, key \in {"", ExperimentKey},
        path \in {"", "contracts/button_test.json"} :
       /\ key = "" => path = ""
       /\ cli = [pc |-> "run", command |-> command, experimentKey |-> key,
                 contractPath |-> path, handler |-> "", helpShown |-> FALSE,
                 log |-> <<>>, exitCode |-> -1]

CliFrame ==
  UNCHANGED <<fs, contract, patchVars, runVars, rollbackVars, poll, val, contractFileVars,
              preflightVars, mcp, env, pullRequests, traffic>>

\* run, up to the switch: no command shows the help and returns; a missing
\* key ends the process with code 1
CliParse ==
  /\ cli.pc = "run"
  /\ cli' = IF cli.command = ""
              THEN [cli EXCEPT !.pc = "returned", !.helpShown = TRUE, !.log = <<"Usage:">>]
            ELSE IF CliKeyRequired(cli.command, cli.experimentKey)
              THEN [cli EXCEPT !.pc = "exited", !.helpShown = TRUE, !.exitCode = 1,
                               !.log = <<"Experiment key is required", "Usage:">>]
            ELSE [cli EXCEPT !.pc = "switch"]
  /\ CliFrame

\* the switch: the handler of the command runs; a throw reaches run's catch,
\* which ends the process with code 1, as does the default case
CliDispatch ==
  /\ cli.pc = "switch"
  /\ \E outcome \in CliHandlerOutcomes(cli.command), detail \in BOOLEAN :
       cli' = [cli EXCEPT
                 !.handler = outcome,
                 !.log = CliHandlerLog(cli.command, outcome, detail),
                 !.helpShown = cli.command \in {"help", "--help", "-h"} \/ outcome = "unknown",
                 !.pc = CASE outcome = "returned" -> "returned"
                          [] outcome = "hung" -> "hung"
                          [] OTHER -> "exited",
                 !.exitCode = IF outcome \in {"threw", "exited 1", "unknown"} THEN 1 ELSE -1]
  /\ CliFrame

\* main resolves and the process ends with nothing pending: exit code 0
CliProcessEnds ==
  /\ cli.pc = "returned"
  /\ cli' = [cli EXCEPT !.pc = "exited", !.exitCode = 0]
  /\ CliFrame

CliNext ==
  \/ CliParse
  \/ CliDispatch
  \/ CliProcessEnds

CliSpec ==
  CliInit /\ [][CliNext]_vars

\* ------------------------------------------------------ CLI claims (CliSpec)
\* the subcommands of the CLI surface that take a key
KeyCommands ==
  {"create", "verify", "status", "start", "stop", "preflight"}

\* the subcommands of the CLI surface that take none
NoKeyCommands ==
  {"list", "help"}

CliFatal ==
  \/ cli.command \in KeyCommands /\ cli.experimentKey = ""
  \/ cli.command \notin CliCommands \ {"bogus"} /\ cli.command # ""
  \/ cli.handler \in {"threw", "exited 1"}

\* C21: when the process has ended, its exit code is 1 exactly when a required
\* argument is missing, the subcommand is unknown or the handler failed, and 0
\* otherwise; list and help without a key end with 0.
C21_ExitCodes ==
  cli.pc = "exited"
  => /\ cli.exitCode = (IF CliFatal THEN 1 ELSE 0)
     /\ (cli.command \in NoKeyCommands /\ cli.experimentKey = "") => cli.exitCode = 0

\* what does hold: the same with a key given
C21_ExitCodesWithKey ==
  (cli.pc = "exited" /\ cli.experimentKey # "")
  => cli.exitCode = (IF CliFatal THEN 1 ELSE 0)

\* ------------------------------------- experiment client (MCPClient, StatsigAPI)
MaxClientOps ==
  2

\* ~/.cursor/mcp.json: absent, not JSON, JSON without or with
\* mcpServers.statsig.env.AUTH_TOKEN
McpConfigs ==
  {"absent", "garbage", "no token", "token"}

NoError ==
  [message |-> "", names |-> {}]

\* the errors of mcp-client.ts, with the variable names their text holds
ConfigNotFoundError ==
  [message |-> "MCP configuration not found. Please ensure MCP is properly configured.",
   names |-> {}]

AuthTokenError ==
  [message |-> "Statsig AUTH_TOKEN not found in MCP configuration or environment",
   names |-> {"AUTH_TOKEN"}]

\* MCPClient.loadMCPConfig: readFileSync and JSON.parse of the config file
loadMCPConfig(config) ==
  IF config \in {"absent", "garbage"} THEN ConfigNotFoundError ELSE NoError

\* MCPClient.getAuthToken: the environment variable, else the config's token
getAuthToken(key, config) ==
  IF key THEN NoError
  ELSE IF config # "token" THEN AuthTokenError
  ELSE NoError

\* status values of startExperiment and stopExperiment
ActiveStatus ==
  "active"

StoppedStatus ==
  "experiment_stopped"

\* the details the console holds of an experiment
Details(status) ==
  [kind |-> "experiment", description |-> "Prime banner", status |-> status]

GetRequest ==
  [tool |-> "Get_Experiment_Details_by_ID", body |-> [kind |-> "none"]]

UpdateRequest(config) ==
  [tool |-> "Update_Experiment_Entirely", body |-> config]

\* MCPClient.callMCPTool for the two tools, as the caller sees it: the token
\* is read first; without one no request is sent.  reachable: the request got
\* a response with an ok status
CallSends(c) ==
  getAuthToken(c.key, c.config) = NoError

GetSucceeds(c, reachable) ==
  CallSends(c) /\ reachable /\ c.remote # "none"

UpdateSucceeds(c, reachable) ==
  CallSends(c) /\ reachable /\ c.remote # "none"

\* MCPClient.startExperiment / stopExperiment: the requests sent, the remote
\* status afterwards and the response returned
SetStatusUpdateFirst(c, status, readOk, updateOk) ==
  [requests |-> IF CallSends(c)
                  THEN <<UpdateRequest([Details(c.remote) EXCEPT !.status = status])>>
                  ELSE <<>>,
   remote |-> IF UpdateSucceeds(c, updateOk) THEN status ELSE c.remote,
   success |-> UpdateSucceeds(c, updateOk)]

SetStatus(c, status, readOk, updateOk) ==
  IF ~GetSucceeds(c, readOk)
    THEN [requests |-> IF CallSends(c) THEN <<GetRequest>> ELSE <<>>,
          remote |-> c.remote, success |-> FALSE]
    ELSE [requests |-> <<GetRequest,
                         UpdateRequest([Details(c.remote) EXCEPT !.status = status])>>,
          remote |-> IF UpdateSucceeds(c, updateOk) THEN status ELSE c.remote,
          success |-> UpdateSucceeds(c, updateOk)]

\* contract.targetingRules
TargetingRules ==
  { [name |-> "Branch rule", passPercentage |-> 100,
     conditions |-> <<[type |-> "branch", operator |-> "any", targetValue |-> "exp/btn",
                       field |-> "branch"]>>,
     environments |-> <<"development">>],
    [name |-> "Everyone", passPercentage |-> 50,
     conditions |-> <<[type |-> "environment", operator |-> "any",
                       targetValue |-> "staging", field |-> ""]>>,
     environments |-> <<"staging", "production">>] }

TargetingRuleLists ==
  { <<>> } \cup { <<r>> : r \in TargetingRules }
           \cup { <<r, q>> : r \in TargetingRules, q \in TargetingRules }

\* StatsigAPI.mapConditionType
mapConditionType(type) ==
  CASE type = "branch" -> "custom_field"
    [] type = "url" -> "url"
    [] type = "user_id" -> "user_id"
    [] type = "custom_field" -> "custom_field"
    [] type = "environment" -> "environment_tier"
    [] OTHER -> "custom_field"

\* buildTargetingConfig: the local `rules`, contract.targetingRules in the
\* console's format
ConsoleRules(targetingRules) ==
  [ i \in 1..Len(targetingRules) |->
      [name |-> targetingRules[i].name,
       passPercentage |-> targetingRules[i].passPercentage,
       conditions |-> [ k \in 1..Len(targetingRules[i].conditions) |->
                          [targetingRules[i].conditions[k]
                             EXCEPT !.type = mapConditionType(@)] ],
       returnValue |-> "{}",
       environments |-> targetingRules[i].environments] ]

\* StatsigAPI.buildTargetingConfig: the object returned
buildTargetingConfig(targetingRules) ==
  [kind |-> "targeting",
   description |-> "Prime banner",
   idType |-> "userID",
   hypothesis |-> "Testing new feature",
   groups |-> <<[name |-> "control", size |-> 50], [name |-> "treatment", size |-> 50]>>,
   allocation |-> 100,
   targetingGateID |-> "null",
   bonferroniCorrection |-> FALSE,
   defaultConfidenceInterval |-> "95",
   status |-> "setup"]

McpInit ==
  /\ fs = [f \in FileNames |-> NoFile]
  /\ contract = UnloadedContract
  /\ patcher = "none"
  /\ fsInitial = fs
  /\ fsBefore = fs
  /\ PatchIdle
  /\ RunOff
  /\ RollbackOff
  /\ PollOff
  /\ ValidateOff
  /\ ContractFileOff
  /\ PreflightOff
  /\ CliOff
  /\ EnvOff
  /\ TrafficOff
  /\ \E key \in BOOLEAN, config \in McpConfigs,
        remote \in {"none", "setup", ActiveStatus, StoppedStatus} :
       mcp = [pc |-> "new", key |-> key, config |-> config, error |-> NoError,
              requests |-> <<>>, remote |-> remote, remoteBefore |-> remote,
              rules |-> <<>>, result |-> [op |-> "", success |-> FALSE], ops |-> 0]

McpFrame ==
  UNCHANGED <<fs, contract, patchVars, runVars, rollbackVars, poll, val, contractFileVars,
              preflightVars, cli, env, pullRequests, traffic>>

\* new MCPClient(): the constructor loads the config file and nothing else
McpConstruct ==
  /\ mcp.pc = "new"
  /\ LET e == loadMCPConfig(mcp.config)
     IN mcp' = [mcp EXCEPT !.pc = IF e = NoError THEN "ready" ELSE "failed",
                           !.error = e]
  /\ McpFrame

McpReady ==
  /\ mcp.pc = "ready"
  /\ mcp.ops < MaxClientOps

\* one start or stop through StatsigAPI, which throws on a failed response
McpSetStatus(op, status) ==
  \E readOk \in BOOLEAN, updateOk \in BOOLEAN :
    LET r == SetStatus(mcp, status, readOk, updateOk)
    IN mcp' = [mcp EXCEPT !.requests = r.requests,
                          !.remote = r.remote,
                          !.remoteBefore = mcp.remote,
                          !.rules = <<>>,
                          !.result = [op |-> op, success |-> r.success],
                          !.error = getAuthToken(mcp.key, mcp.config),
                          !.ops = @ + 1]

StartExperiment ==
  /\ McpReady
  /\ McpSetStatus("start", ActiveStatus)
  /\ McpFrame

StopExperiment ==
  /\ McpReady
  /\ McpSetStatus("stop", StoppedStatus)
  /\ McpFrame

\* StatsigAPI.updateExperimentTargeting: one update with the targeting config
UpdateExperimentTargeting ==
  /\ McpReady
  /\ \E targetingRules \in TargetingRuleLists, updateOk \in BOOLEAN :
       mcp' = [mcp EXCEPT
                 !.requests = IF CallSends(mcp)
                                THEN <<UpdateRequest(buildTargetingConfig(targetingRules))>>
                                ELSE <<>>,
                 !.rules = targetingRules,
                 !.remoteBefore = mcp.remote,
                 !.remote = IF UpdateSucceeds(mcp, updateOk) THEN "setup" ELSE mcp.remote,
                 !.result = [op |-> "targeting", success |-> UpdateSucceeds(mcp, updateOk)],
                 !.error = getAuthToken(mcp.key, mcp.config),
                 !.ops = @ + 1]
  /\ McpFrame

McpNext ==
  \/ McpConstruct
  \/ StartExperiment
  \/ StopExperiment
  \/ UpdateExperimentTargeting

McpSpec ==
  McpInit /\ [][McpNext]_vars

\* ------------------------------------------ experiment client claims (McpSpec)
C22_Constructed ==
  mcp.pc \in {"ready", "failed"}

\* C22: with STATSIG_CONSOLE_API_KEY unset and no fallback token configured,
\* construction fails with an error naming exactly that variable; with the
\* variable set, construction succeeds.
C22_ConstructionFailsFast ==
  C22_Constructed
  => /\ (~mcp.key /\ mcp.config # "token")
          => (mcp.pc = "failed" /\ mcp.error.names = {"STATSIG_CONSOLE_API_KEY"})
     /\ mcp.key => mcp.pc = "ready"

\* what does hold: without a credential every call fails before any request
\* is sent
C22_NoCredentialNoRequest ==
  (mcp.ops > 0 /\ ~mcp.key /\ mcp.config # "token")
  => (mcp.requests = <<>> /\ ~mcp.result.success /\ mcp.error = AuthTokenError)

StatusOf(op) ==
  IF op = "start" THEN ActiveStatus ELSE StoppedStatus

\* C29: start and stop read the experiment first and then send exactly one
\* update, the fetched details with the status set to active (stopped); when
\* the read fails no update is sent, the operation fails and the remote
\* experiment is unchanged.
C29_ReadThenUpdate ==
  mcp.result.op \in {"start", "stop"}
  => /\ Len(mcp.requests) <= 2
     /\ Len(mcp.requests) >= 1 => mcp.requests[1] = GetRequest
     /\ Len(mcp.requests) = 2
          => mcp.requests[2] = UpdateRequest([Details(mcp.remoteBefore)
                                                EXCEPT !.status = StatusOf(mcp.result.op)])
     /\ Len(mcp.requests) < 2 => (~mcp.result.success /\ mcp.remote = mcp.remoteBefore)
     /\ mcp.result.success
          => (Len(mcp.requests) = 2 /\ mcp.remote = StatusOf(mcp.result.op))
     /\ ~mcp.result.success => mcp.remote = mcp.remoteBefore

\* a stop of an active experiment went through as the second operation
C29_Witness ==
  /\ mcp.result = [op |-> "stop", success |-> TRUE]
  /\ mcp.remoteBefore = ActiveStatus
  /\ mcp.remote = StoppedStatus
  /\ Len(mcp.requests) = 2
  /\ mcp.ops = 2

\* some field of the update body holds the rules, as given or in the
\* console's format
CarriesRules(body, rules) ==
  \E f \in (DOMAIN body) \cap {"rules", "targetingRules", "groups"} :
    body[f] \in {rules, ConsoleRules(rules)}

\* C30: the update request of ConfigureTargeting holds every targetingRules
\* entry of the contract, in contract order.
C30_TargetingRulesSent ==
  (mcp.result.op = "targeting" /\ mcp.requests # <<>> /\ mcp.rules # <<>>)
  => CarriesRules(mcp.requests[1].body, mcp.rules)

\* what does hold: one update is sent, with the status `setup`
C30_OneSetupUpdate ==
  (mcp.result.op = "targeting" /\ mcp.requests # <<>>)
  => /\ Len(mcp.requests) = 1
     /\ mcp.requests[1].tool = "Update_Experiment_Entirely"
     /\ mcp.requests[1].body.status = "setup"

\* ------------------------------------------- environment claims (StartupSpec)
OptionalVariablesMissing ==
  ~env.vercel \/ ~env.githubToken \/ ~env.githubRepository

\* C23: a missing optional environment variable never aborts a create run:
\* the run is not ended by the imports or by the deployment stage, and what
\* ends it before CreateRemoteExperiment is one of the stages that may fail
\* whatever the environment.
C23_OptionalEnvNeverAborts ==
  (OptionalVariablesMissing /\ pc = "Exit" /\ exitCode = 1)
  => failedStage \in Stages \ {"AwaitDeployment"}

\* what does hold: without the Vercel variables the deployment stage gets the
\* mock client's answer and the run goes on to CreateRemoteExperiment
C23_VercelDegrades ==
  (~env.vercel /\ "AwaitDeployment" \in completed)
  => /\ ~deployRequested
     /\ ~deployFailed => previewUrl = MockDeploymentUrl
     /\ failedStage # "AwaitDeployment"
     /\ pc = "CreateRemoteExperiment" \/ Started("CreateRemoteExperiment")

\* ------------------------------------------------ pull request claim (Spec)
\* C24: a successful create run has created a pull request for the
\* experiment branch that carries the deployment URL, after the experiment
\* was created in Statsig.
C24_PullRequestCreated ==
  exitCode = 0
  => \E i \in 1..Len(pullRequests) :
       /\ pullRequests[i].head = contract.branchName
       /\ pullRequests[i].previewUrl = previewUrl
       /\ pullRequests[i].afterCreate

\* what does hold: a successful run has created the experiment and no pull
\* request
C24_NoPullRequest ==
  /\ pullRequests = <<>>
  /\ exitCode = 0 => Called("create")

\* --------------------------------------------- termination claim (PatchSpec)
\* C27: the line-scanning patcher's call ends for every contract and every
\* file, with the import present and with the import to be added.
C27_ScanTerminates ==
  (patcher = "scan" /\ patchRuns >= 1) => patchStatus = "returned"

\* what does hold: the scan ends whenever the file already has the import or
\* holds no declaration of the function
C27_ScanTerminatesWithoutSplice ==
  (/\ patcher = "scan"
   /\ patchRuns >= 1
   /\ \/ hasStatsigImport(fsBefore[TheChange.file])
      \/ DeclarationLines(fsBefore[TheChange.file], TheChange.function) = {})
  => patchStatus = "returned"

\* ------------------------------------- per-check flags claim (PreflightSpec)
\* C28: in the report of a finished run, checks.X is true exactly when check
\* X itself added no error, whatever the other checks added.
C28_FlagsReflectOwnCheck ==
  PreflightDone
  => \A i \in 1..6 :
       pre.result.checks[PreflightChecks[i]] <=> PreflightChecks[i] \notin pre.added

\* what does hold: a true flag means the check added no error, and the flags
\* of the four checks that do not look at the error list are exact
C28_TrueFlagMeansNoError ==
  PreflightDone
  => /\ \A i \in 1..6 :
          pre.result.checks[PreflightChecks[i]] => PreflightChecks[i] \notin pre.added
     /\ \A check \in {"statsigConnectivity", "branchState", "deployment"} :
          pre.result.checks[check] <=> check \notin pre.added

\* ---------------------------------------------------------------------------
\* Traffic generator (src/scripts/generateTraffic.ts)
\*
\* generateTraffic dispatches one simulateUserJourney per user, a slice of
\* batchSize users at a time, and awaits each slice with Promise.all inside a
\* try/catch.  A journey first awaits getExperimentVariant, which awaits
\* initializeStatsig and then Statsig.getConfig; everything after that (the
\* logEvent calls) awaits nothing but an already initialised SDK and catches
\* its own errors, so the journey resolves once getConfig has resolved.
\*
\* The journeys of one batch run the same code on their own user, so a batch
\* is kept as the number of its journeys at each await (how many, not which).
\* ---------------------------------------------------------------------------

\* the largest --users argument explored
MaxUsers == 12

\* const batchSize = 10
batchSize == 10

Min(a, b) == IF a < b THEN a ELSE b

\* users.slice(i, i + batchSize).length
SliceLength(userCount, i) == Min(batchSize, userCount - i)

\* journeys of a batch that have neither resolved nor rejected
Pending(batch) == batch.awaitInitialize + batch.awaitConfig

\* Promise.all(promises): fulfilled when every promise is fulfilled
PromiseAllResolved(batch) == batch.resolved = batch.size

\* Promise.all(promises): rejected as soon as one promise is rejected
PromiseAllRejected(batch) == batch.rejected >= 1

\* batch.map(user => simulateUserJourney(user, maxActions)): every journey runs
\* up to its first pending await inside initializeStatsig.  The flag cannot
\* change during the map, so every journey of the slice reads the same value:
\* set -> straight on to Statsig.getConfig; unset and no secret -> the journey
\* rejects; unset with a secret -> the journey calls Statsig.initialize.
DispatchedBatch(size, initialized, secret) ==
  [size |-> size,
   awaitInitialize |-> IF ~initialized /\ secret THEN size ELSE 0,
   awaitConfig |-> IF initialized THEN size ELSE 0,
   resolved |-> 0,
   rejected |-> IF ~initialized /\ ~secret THEN size ELSE 0]

\* initializeStatsig: every journey that finds the flag unset and a secret calls
\* Statsig.initialize (the flag is set only after the await)
InitializeCalls(size, initialized, secret) ==
  IF ~initialized /\ secret THEN size ELSE 0

TrafficInit ==
  /\ fs = [f \in FileNames |-> NoFile]
  /\ contract = UnloadedContract
  /\ patcher = "none"
  /\ fsInitial = fs
  /\ fsBefore = fs
  /\ PatchIdle
  /\ RunOff
  /\ RollbackOff
  /\ PollOff
  /\ ValidateOff
  /\ ContractFileOff
  /\ PreflightOff
  /\ CliOff
  /\ McpOff
  /\ EnvOff
  /\ \E userCount \in 0..MaxUsers, secret \in BOOLEAN :
       traffic = [pc |-> "loop", secret |-> secret, userCount |-> userCount, i |-> 0,
                  journeys |-> [u \in 1..userCount |-> 0], batches |-> <<>>,
                  statsigInitialized |-> FALSE, initializeCalls |-> 0,
                  shutdown |-> FALSE]

TrafficFrame ==
  UNCHANGED <<fs, contract, patchVars, runVars, rollbackVars, poll, val, contractFileVars,
              preflightVars, cli, mcp, env, pullRequests>>

\* one iteration of the batch loop up to the await
DispatchBatch ==
  /\ traffic.pc = "loop"
  /\ traffic.i < traffic.userCount
  /\ LET size == SliceLength(traffic.userCount, traffic.i)
     IN traffic' =
          [traffic EXCEPT
             !.pc = "await",
             !.journeys = [u \in 1..traffic.userCount |->
                             IF u > traffic.i /\ u <= traffic.i + size
                               THEN traffic.journeys[u] + 1 ELSE traffic.journeys[u]],
             !.batches = Append(@, DispatchedBatch(size, traffic.statsigInitialized,
                                                   traffic.secret)),
             !.initializeCalls = @ + InitializeCalls(size, traffic.statsigInitialized,
                                                     traffic.secret)]
  /\ TrafficFrame

\* await Statsig.initialize(serverSecret) returns in one journey:
\* statsigInitialized = true, and the journey calls Statsig.getConfig
InitializeResolves ==
  /\ \E b \in 1..Len(traffic.batches) :
       /\ traffic.batches[b].awaitInitialize > 0
       /\ traffic' = [traffic EXCEPT !.batches[b].awaitInitialize = @ - 1,
                                     !.batches[b].awaitConfig = @ + 1,
                                     !.statsigInitialized = TRUE]
  /\ TrafficFrame

\* await Statsig.initialize(serverSecret) throws in one journey: the journey rejects
InitializeRejects ==
  /\ \E b \in 1..Len(traffic.batches) :
       /\ traffic.batches[b].awaitInitialize > 0
       /\ traffic' = [traffic EXCEPT !.batches[b].awaitInitialize = @ - 1,
                                     !.batches[b].rejected = @ + 1]
  /\ TrafficFrame

\* await Statsig.getConfig(...) returns in one journey: the rest of the journey
\* awaits nothing that is pending, the journey resolves
GetConfigResolves ==
  /\ \E b \in 1..Len(traffic.batches) :
       /\ traffic.batches[b].awaitConfig > 0
       /\ traffic' = [traffic EXCEPT !.batches[b].awaitConfig = @ - 1,
                                     !.batches[b].resolved = @ + 1]
  /\ TrafficFrame

\* await Statsig.getConfig(...) throws in one journey: the journey rejects
GetConfigRejects ==
  /\ \E b \in 1..Len(traffic.batches) :
       /\ traffic.batches[b].awaitConfig > 0
       /\ traffic' = [traffic EXCEPT !.batches[b].awaitConfig = @ - 1,
                                     !.batches[b].rejected = @ + 1]
  /\ TrafficFrame

\* await Promise.all(promises) returns or throws into the catch; i += batchSize
BatchSettles ==
  /\ traffic.pc = "await"
  /\ LET batch == traffic.batches[Len(traffic.batches)]
     IN PromiseAllResolved(batch) \/ PromiseAllRejected(batch)
  /\ traffic' = [traffic EXCEPT !.pc = "loop", !.i = @ + batchSize]
  /\ TrafficFrame

\* the loop is over: await Statsig.shutdown()
TrafficShutdown ==
  /\ traffic.pc = "loop"
  /\ traffic.i >= traffic.userCount
  /\ traffic' = [traffic EXCEPT !.pc = "done", !.shutdown = TRUE]
  /\ TrafficFrame

TrafficNext ==
  \/ DispatchBatch
  \/ InitializeResolves
  \/ InitializeRejects
  \/ GetConfigResolves
  \/ GetConfigRejects
  \/ BatchSettles
  \/ TrafficShutdown

TrafficSpec == TrafficInit /\ [][TrafficNext]_vars

\* the users of batch b are users.slice((b - 1) * batchSize, b * batchSize)
BatchUsers(b) ==
  {u \in 1..traffic.userCount : u > (b - 1) * batchSize /\ u <= b * batchSize}

\* C25: journeys run in consecutive batches of at most 10 users, no journey of
\* batch k+1 starts before every journey of batch k has resolved or rejected,
\* and each generated user gets exactly one journey.
C25_BatchesSequential ==
  /\ \A b \in 1..Len(traffic.batches) :
       /\ traffic.batches[b].size = Cardinality(BatchUsers(b))
       /\ traffic.batches[b].size <= 10
  /\ \A k \in 1..(Len(traffic.batches) - 1) : Pending(traffic.batches[k]) = 0
  /\ \A u \in 1..traffic.userCount :
       /\ traffic.journeys[u] <= 1
       /\ traffic.pc = "done" => traffic.journeys[u] = 1

\* C25, as far as the code goes: the batches are consecutive slices of at most
\* 10 users, each user gets exactly one journey, and a batch starts while a
\* journey of the batch before it is still running only when a journey of that
\* batch has rejected.
C25_SequentialUnlessRejected ==
  /\ \A b \in 1..Len(traffic.batches) :
       /\ traffic.batches[b].size = Cardinality(BatchUsers(b))
       /\ traffic.batches[b].size <= 10
  /\ \A k \in 1..(Len(traffic.batches) - 1) :
       Pending(traffic.batches[k]) = 0 \/ traffic.batches[k].rejected >= 1
  /\ \A u \in 1..traffic.userCount :
       /\ traffic.journeys[u] <= 1
       /\ traffic.pc = "done" => traffic.journeys[u] = 1

\* C26: concurrent journeys share no mutable state, so the one-time
\* initialisation of the Statsig SDK is performed at most once in a run,
\* whatever the interleaving of the journeys.
C26_InitializedOnce ==
  traffic.initializeCalls <= 1

\* C26, as far as the code goes: Statsig.initialize is called at most once per
\* journey, and never after a dispatch that found the shared flag set.
C26_InitializedAtMostOncePerJourney ==
  /\ traffic.initializeCalls <= Len(traffic.journeys)
  /\ traffic.statsigInitialized => traffic.initializeCalls >= 1
  /\ \A b \in 1..Len(traffic.batches) :
       traffic.batches[b].awaitInitialize > 0 => traffic.secret

====
